---- MODULE Spec2Model ----
(***************************************************************************)
(* Sampling & aggregation engine of task-manager-linux.                    *)
(*                                                                         *)
(*   Spec        : the sampler thread of Collector::run, the hand-off      *)
(*                 channel and the consumer polling it (collector.rs,      *)
(*                 window.rs); SpecFair adds the scheduling of the thread  *)
(*   SpecGroups  : build_app_groups (backend/collector.rs)                 *)
(*   SpecHistory : AppHistoryTracker (backend/history.rs)                  *)
(*   SpecRates   : the delta-rate collectors (backend/process.rs, disk.rs,  *)
(*                 network.rs, cpu.rs)                                     *)
(*                                                                         *)
(* Strings are sequences of one-character strings, so that lower-casing    *)
(* and prefix extraction are computed and not assumed.  f64 values that    *)
(* the code only adds, compares with 0 and orders are modelled as          *)
(* naturals; a quotient is kept as the pair <<numerator, denominator>>.    *)
(***************************************************************************)
EXTENDS Integers, Sequences, FiniteSets, TLC

VARIABLES
    histories,   \* AppHistoryTracker.histories: display name -> AppHistory
    hPrev,       \* histories as they were when the last update was called
    hGroups,     \* the app_groups argument of the last update call
    absentRun,   \* per display name: consecutive update calls without it
    absentPrev,  \* absentRun as it was when the last update was called
    gProcs,      \* build_app_groups: the processes argument
    gGroups,     \* build_app_groups: the returned list
    gPhase       \* "idle", "input" (not yet called) or "built" (returned)

histVars == <<histories, hPrev, hGroups, absentRun, absentPrev>>

groupVars == <<gProcs, gGroups, gPhase>>

VARIABLES
    rMode,       \* the collector a run exercises: "process", "disk", "net",
                 \* "cpu", or "idle"
    num_cores,   \* what num_cpus() returns
    procC,       \* ProcessCollector: [prev_processes, prev_total_cpu]
    procCall,    \* its last collect: [before, total_cpu, entries, result]
    diskC,       \* DiskCollector.prev_stats
    diskCall,    \* its last collect: [before, elapsed, lines, result]
    netC,        \* NetworkCollector.prev_stats
    netCall,     \* its last collect: [before, elapsed, lines, result]
    cpuC,        \* CpuCollector: [prev_total, prev_idle]
    cpuCall,     \* its last collect: [before, lines, result]
    cpuPanicked, \* the collector thread died of an arithmetic overflow
    overflowChecks  \* the build traps integer overflow (debug profile)

rateVars == <<rMode, num_cores, procC, procCall, diskC, diskCall, netC, netCall,
              cpuC, cpuCall, cpuPanicked, overflowChecks>>

VARIABLES
    sPc,         \* the sampler thread's position in Collector::run
    cycle,       \* number of cycles the sampler has started
    pending,     \* the snapshot of the cycle in progress (handed to send)
    chan,        \* the hand-off channel: snapshots sent and not yet received
    rxAlive,     \* the Receiver has not been dropped
    cPc,         \* the consumer: "idle", or "draining" inside the poll closure
    latest,      \* latest_snapshot of the poll closure (<<>> for None)
    received,    \* number of snapshots the consumer has received
    graph        \* the series of the CPU graph: one [seq, value] per sample,
                 \* seq naming the snapshot the value was taken from

samplerVars == <<sPc, cycle, pending, histVars, procC, procCall, diskC, diskCall,
                 netC, netCall, cpuC, cpuCall, cpuPanicked>>

loopVars == <<sPc, cycle, pending, chan, rxAlive, cPc, latest, received, graph, graph>>

VARIABLES
    call         \* the last call of a stateless function: its name, its
                 \* arguments and, once it has returned, its result

pureVars == <<call>>

vars == <<histVars, groupVars, rateVars, loopVars, pureVars>>

(***************************************************************************)
(* Bounds of the model.                                                    *)
(***************************************************************************)
\* history.rs:3 sets MAX_SAMPLES = 300; the tracker is checked with the
\* window scaled down, every property below being stated in terms of it.
MAX_SAMPLES == 3
\* longest app_groups list handed to one update call
MaxGroups == 2
\* longest process list handed to build_app_groups
MaxProcs == 3
\* largest cumulative counter a process, device or interface reports
MaxCounter == 1
\* largest value of one tick field of a /proc/stat line
MaxTicks == 2
\* width of the model's u64
WordBits == 8
\* cycles the sampler starts while the receiver is alive
MaxCycles == 3
\* points of the graph window (POINTS_1MIN, 60 in the source)
POINTS_1MIN == 2
\* flume::bounded(2)
ChannelCap == 2
\* fields a stat record must have after its comm: fields.len() < 22
StatFields == 22

\* absentRun stops counting here (one past the eviction deadline)
AbsentCap == MAX_SAMPLES + 1

(***************************************************************************)
(* Helpers                                                                 *)
(***************************************************************************)
Range(s) == {s[i] : i \in 1..Len(s)}

\* the last n elements of s (all of s when it is shorter)
LastN(s, n) == IF Len(s) <= n THEN s ELSE SubSeq(s, Len(s) - n + 1, Len(s))

\* all sequences over S of length 0..n
SeqsUpTo(S, n) == UNION {[1..k -> S] : k \in 0..n}

(***************************************************************************)
(* model/process_info.rs, model/app_group.rs                               *)
(***************************************************************************)
DefaultProcessInfo ==
    [pid |-> 0, ppid |-> 0, name |-> <<>>, display_name |-> <<>>,
     exe_path |-> <<>>, cpu_percent |-> 0, memory_bytes |-> 0,
     vram_bytes |-> 0, disk_read_rate |-> 0, disk_write_rate |-> 0,
     threads |-> 0]

AppGroupNew(leader) ==
    [leader |-> leader, children |-> <<>>,
     total_cpu |-> leader.cpu_percent,
     total_memory |-> leader.memory_bytes,
     total_vram |-> leader.vram_bytes,
     total_disk_read_rate |-> leader.disk_read_rate,
     total_disk_write_rate |-> leader.disk_write_rate]

\* mutant: a child's VRAM is not added
add_child_no_vram(group, child) ==
    [group EXCEPT
        !.total_cpu = @ + child.cpu_percent,
        !.total_memory = @ + child.memory_bytes,
        !.total_disk_read_rate = @ + child.disk_read_rate,
        !.total_disk_write_rate = @ + child.disk_write_rate,
        !.children = Append(@, child)]

add_child(group, child) ==
    [group EXCEPT
        !.total_cpu = @ + child.cpu_percent,
        !.total_memory = @ + child.memory_bytes,
        !.total_vram = @ + child.vram_bytes,
        !.total_disk_read_rate = @ + child.disk_read_rate,
        !.total_disk_write_rate = @ + child.disk_write_rate,
        !.children = Append(@, child)]

process_count(group) == 1 + Len(group.children)

display_name(group) == group.leader.display_name

(***************************************************************************)
(* backend/collector.rs: build_app_groups                                  *)
(***************************************************************************)
\* char::to_lowercase on the characters that occur in the inputs
Lower(c) == CASE c = "A" -> "a" [] c = "B" -> "b" [] c = "P" -> "p"
              [] c = "S" -> "s" [] c = "H" -> "h" [] OTHER -> c

to_lowercase(s) == [i \in 1..Len(s) |-> Lower(s[i])]

\* mutant: init is not excepted
is_kernel_thread_init_too(proc) ==
    proc.pid = 2 \/ proc.ppid = 2 \/ proc.ppid = 0

is_kernel_thread(proc) ==
    proc.pid = 2 \/ proc.ppid = 2 \/ (proc.ppid = 0 /\ proc.pid # 1)

\* mutant: the key keeps the case of the path
GroupKeyCaseSensitive(proc) ==
    IF proc.exe_path # <<>> THEN proc.exe_path
    ELSE to_lowercase(proc.name)

\* the by_name key: the lower-cased exe path, or the lower-cased process
\* name when the path is empty
GroupKey(proc) ==
    IF proc.exe_path # <<>> THEN to_lowercase(proc.exe_path)
    ELSE to_lowercase(proc.name)

KernelProcs(processes) == SelectSeq(processes, is_kernel_thread)

UserProcs(processes) == SelectSeq(processes, LAMBDA p : ~is_kernel_thread(p))

\* by_name[key]: the userspace processes of one key, in input order
ByName(processes, key) ==
    SelectSeq(UserProcs(processes), LAMBDA p : GroupKey(p) = key)

NameKeys(processes) == {GroupKey(p) : p \in Range(UserProcs(processes))}

\* the orders in which a HashMap over the key set S may be iterated
IterOrders(S) == {f \in [1..Cardinality(S) -> S] : Range(f) = S}

\* name.find(|c| c == '_' || c == '-'): index of the first delimiter, 0 for None
FindDelim(name) ==
    IF \E i \in 1..Len(name) : name[i] \in {"_", "-"}
    THEN CHOOSE i \in 1..Len(name) :
            /\ name[i] \in {"_", "-"}
            /\ \A j \in 1..(i - 1) : name[j] \notin {"_", "-"}
    ELSE 0

HasPrefix(proc) == FindDelim(proc.name) > 0

\* mutant: the prefix keeps its case
PrefixOfCaseSensitive(proc) == SubSeq(proc.name, 1, FindDelim(proc.name) - 1)

PrefixOf(proc) == to_lowercase(SubSeq(proc.name, 1, FindDelim(proc.name) - 1))

\* singletons: the processes alone under their key, in iteration order
Singletons(processes, keyOrder) ==
    LET ks == SelectSeq(keyOrder, LAMBDA k : Len(ByName(processes, k)) = 1)
    IN  [i \in 1..Len(ks) |-> ByName(processes, ks[i])[1]]

\* multi, as filled by the drain loop: the keys with two or more processes
MultiByKey(processes, keyOrder) ==
    LET ks == SelectSeq(keyOrder, LAMBDA k : Len(ByName(processes, k)) # 1)
    IN  [i \in 1..Len(ks) |-> ByName(processes, ks[i])]

ByPrefix(singles, pfx) ==
    SelectSeq(singles, LAMBDA p : HasPrefix(p) /\ PrefixOf(p) = pfx)

PrefixKeys(singles) == {PrefixOf(p) : p \in {q \in Range(singles) : HasPrefix(q)}}

\* mutant: a singleton whose prefix nobody shares is forgotten
MergeByPrefixDropLone(singles, prefixOrder) ==
    LET big == SelectSeq(prefixOrder, LAMBDA k : Len(ByPrefix(singles, k)) >= 2)
        bare == SelectSeq(singles, LAMBDA p : ~HasPrefix(p))
    IN  [i \in 1..Len(big) |-> ByPrefix(singles, big[i])]
        \o [i \in 1..Len(bare) |-> <<bare[i]>>]

\* the prefix pass: prefixes shared by two or more singletons become merged
\* groups; the other singletons follow, each a group of its own (first the
\* names without delimiter, then the lone prefixes in iteration order)
MergeByPrefix(singles, prefixOrder) ==
    LET big == SelectSeq(prefixOrder, LAMBDA k : Len(ByPrefix(singles, k)) >= 2)
        lone == SelectSeq(prefixOrder, LAMBDA k : Len(ByPrefix(singles, k)) < 2)
        bare == SelectSeq(singles, LAMBDA p : ~HasPrefix(p))
        no_prefix == bare \o [i \in 1..Len(lone) |-> ByPrefix(singles, lone[i])[1]]
    IN  [i \in 1..Len(big) |-> ByPrefix(singles, big[i])]
        \o [i \in 1..Len(no_prefix) |-> <<no_prefix[i]>>]

\* mutant: the display name plays no part
HasDisplayRankFlat(p) == 1

\* the min_by_key key: (has_display, pid)
HasDisplayRank(p) ==
    IF p.display_name # p.name /\ p.display_name # <<>> THEN 0 ELSE 1

LeaderLess(p, q) ==
    \/ HasDisplayRank(p) < HasDisplayRank(q)
    \/ HasDisplayRank(p) = HasDisplayRank(q) /\ p.pid < q.pid

\* min_by_key returns the first of several equally minimal elements
LeaderIdx(procs) ==
    CHOOSE i \in 1..Len(procs) :
        /\ \A j \in 1..Len(procs) : ~LeaderLess(procs[j], procs[i])
        /\ \A j \in 1..(i - 1) : LeaderLess(procs[i], procs[j])

RECURSIVE AddChildren(_, _, _, _)
AddChildren(group, procs, skip, i) ==
    IF i > Len(procs) THEN group
    ELSE AddChildren(IF i = skip THEN group ELSE add_child(group, procs[i]),
                     procs, skip, i + 1)

\* one AppGroup from one list of processes
BuildGroup(procs) ==
    AddChildren(AppGroupNew(procs[LeaderIdx(procs)]), procs, LeaderIdx(procs), 1)

RECURSIVE SumField(_, _, _)
SumField(procs, field, i) ==
    IF i > Len(procs) THEN 0 ELSE procs[i][field] + SumField(procs, field, i + 1)

\* the synthetic "Kernel" group: a leader with pid 0 carrying the sums, and
\* every kernel process as a child
KernelGroup(kernel_procs) ==
    AddChildren(
        AppGroupNew([DefaultProcessInfo EXCEPT
            !.pid = 0,
            !.display_name = <<"K", "e", "r", "n", "e", "l">>,
            !.name = <<"k", "e", "r", "n", "e", "l">>,
            !.cpu_percent = SumField(kernel_procs, "cpu_percent", 1),
            !.memory_bytes = SumField(kernel_procs, "memory_bytes", 1),
            !.threads = Len(kernel_procs)]),
        kernel_procs, 0, 1)

\* mutant: the list is left in the order it was built
InsertBack(sorted, g) == Append(sorted, g)

\* slice::sort_by with b.total_cpu.partial_cmp(&a.total_cpu): a stable sort,
\* descending; g goes behind every element that is not smaller
InsertDesc(sorted, g) ==
    LET before == {i \in 1..Len(sorted) : sorted[i].total_cpu >= g.total_cpu}
        k == IF before = {} THEN 0
             ELSE CHOOSE i \in before : \A j \in before : j <= i
    IN  SubSeq(sorted, 1, k) \o <<g>> \o SubSeq(sorted, k + 1, Len(sorted))

RECURSIVE SortDesc(_, _, _)
SortDesc(sorted, groups, i) ==
    IF i > Len(groups) THEN sorted
    ELSE SortDesc(InsertDesc(sorted, groups[i]), groups, i + 1)

\* build_app_groups; keyOrder and prefixOrder are the iteration orders of the
\* two HashMaps (by_name and by_prefix)
build_app_groups(processes, keyOrder, prefixOrder) ==
    LET kernel_procs == KernelProcs(processes)
        multi == MultiByKey(processes, keyOrder)
                 \o MergeByPrefix(Singletons(processes, keyOrder), prefixOrder)
        result == (IF kernel_procs # <<>> THEN <<KernelGroup(kernel_procs)>>
                   ELSE <<>>)
                  \o [i \in 1..Len(multi) |-> BuildGroup(multi[i])]
    IN  SortDesc(<<>>, result, 1)

(***************************************************************************)
(* The delta-rate collectors                                               *)
(***************************************************************************)
\* mutant: wrapping subtraction
WrappingSub(a, b) == (a - b + 2 ^ WordBits) % (2 ^ WordBits)

\* u64::saturating_sub
saturating_sub(a, b) == IF a > b THEN a - b ELSE 0

\* an f64 quotient num / den, kept exact; it is 0.0 exactly when num = 0
Quot(num, den) == <<num, den>>
Zero == Quot(0, 1)
IsZero(q) == q[1] = 0

StartsWith(s, pre) == Len(s) >= Len(pre) /\ SubSeq(s, 1, Len(pre)) = pre
Contains(s, c) == \E i \in 1..Len(s) : s[i] = c

\* Vec::iter().find(|(n, _, _)| n == &name): index of the first entry, 0 for None
FindByName(stats, name) ==
    IF \E i \in 1..Len(stats) : stats[i][1] = name
    THEN CHOOSE i \in 1..Len(stats) :
            /\ stats[i][1] = name
            /\ \A j \in 1..(i - 1) : stats[j][1] # name
    ELSE 0

\* mutant: the elapsed time is used as measured
ClampElapsedOff(us) == us

\* prev_time.elapsed().as_secs_f64().max(0.001), in microseconds
ClampElapsed(us) == IF us > 1000 THEN us ELSE 1000

\* the rate pair of one device or interface (disk.rs:42-50, network.rs:37-45)
RatePair(prev_stats, name, b1, b2, elapsed) ==
    LET k == FindByName(prev_stats, name)
    IN  IF k # 0
        THEN <<Quot(saturating_sub(b1, prev_stats[k][2]) * 1000000, ClampElapsed(elapsed)),
               Quot(saturating_sub(b2, prev_stats[k][3]) * 1000000, ClampElapsed(elapsed))>>
        ELSE <<Zero, Zero>>

\* the loop body after the filters: one output record per accepted entry
DeltaRates(prev_stats, entries, elapsed) ==
    [i \in 1..Len(entries) |->
        LET r == RatePair(prev_stats, entries[i][1], entries[i][2], entries[i][3], elapsed)
        IN  [name |-> entries[i][1], rate1 |-> r[1], rate2 |-> r[2],
             total1 |-> entries[i][2], total2 |-> entries[i][3]]]

\* backend/disk.rs: whole disks only (sd?, nvme?n? without partition, vd?)
is_disk(name) ==
    \/ StartsWith(name, <<"s", "d">>) /\ Len(name) = 3
    \/ StartsWith(name, <<"n", "v", "m", "e">>) /\ Contains(name, "n")
          /\ ~Contains(name, "p")
    \/ StartsWith(name, <<"v", "d">>) /\ Len(name) = 3

\* the (name, read_bytes, write_bytes) of the accepted /proc/diskstats lines
DiskEntries(lines) ==
    LET ok == SelectSeq(lines, LAMBDA l : l.parts >= 14 /\ is_disk(l.name))
    IN  [i \in 1..Len(ok) |-> <<ok[i].name, ok[i].c1 * 512, ok[i].c2 * 512>>]

\* DiskCollector::collect: the devices returned; prev_stats becomes the
\* current entries
DiskCollect(prev_stats, lines, elapsed) ==
    DeltaRates(prev_stats, DiskEntries(lines), elapsed)

\* the (name, rx_bytes, tx_bytes) of the accepted /proc/net/dev lines
NetEntries(lines) ==
    LET ok == SelectSeq(lines, LAMBDA l : l.parts >= 10 /\ l.name # <<"l", "o">>)
    IN  [i \in 1..Len(ok) |-> <<ok[i].name, ok[i].c1, ok[i].c2>>]

\* NetworkCollector::collect
NetCollect(prev_stats, lines, elapsed) ==
    DeltaRates(prev_stats, NetEntries(lines), elapsed)

(***************************************************************************)
(* backend/process.rs: ProcessCollector::collect                           *)
(***************************************************************************)
\* prev.map(|(c, _, _)| *c).unwrap_or(0)
PrevCpu0(prev, e) == IF e.pid \in DOMAIN prev THEN prev[e.pid][1] ELSE 0

\* prev.map(|(_, r, _)| *r).unwrap_or(info.disk_read_bytes)
PrevRead(prev, e) ==
    IF e.pid \in DOMAIN prev THEN prev[e.pid][2] ELSE e.disk_read_bytes

\* prev.map(|(_, _, w)| *w).unwrap_or(info.disk_write_bytes)
PrevWrite(prev, e) ==
    IF e.pid \in DOMAIN prev THEN prev[e.pid][3] ELSE e.disk_write_bytes

\* mutant: the percent is not scaled by the number of cores
ProcessRatesUnscaled(prev, delta_total, cores, e) ==
    LET cpu_delta == saturating_sub(e.total_cpu_time, PrevCpu0(prev, e))
    IN  [pid |-> e.pid,
         total_cpu_time |-> e.total_cpu_time,
         disk_read_bytes |-> e.disk_read_bytes,
         disk_write_bytes |-> e.disk_write_bytes,
         cpu_percent |-> IF delta_total > 0
                         THEN Quot(cpu_delta * 100, delta_total)
                         ELSE Zero,
         prev_cpu_time |-> PrevCpu0(prev, e),
         disk_read_rate |-> saturating_sub(e.disk_read_bytes, PrevRead(prev, e)),
         disk_write_rate |-> saturating_sub(e.disk_write_bytes, PrevWrite(prev, e)),
         prev_disk_read |-> PrevRead(prev, e),
         prev_disk_write |-> PrevWrite(prev, e)]

\* the fields collect computes for one successfully read process
ProcessRates(prev, delta_total, cores, e) ==
    LET cpu_delta == saturating_sub(e.total_cpu_time, PrevCpu0(prev, e))
    IN  [pid |-> e.pid,
         total_cpu_time |-> e.total_cpu_time,
         disk_read_bytes |-> e.disk_read_bytes,
         disk_write_bytes |-> e.disk_write_bytes,
         cpu_percent |-> IF delta_total > 0
                         THEN Quot(cpu_delta * 100 * cores, delta_total)
                         ELSE Zero,
         prev_cpu_time |-> PrevCpu0(prev, e),
         disk_read_rate |-> saturating_sub(e.disk_read_bytes, PrevRead(prev, e)),
         disk_write_rate |-> saturating_sub(e.disk_write_bytes, PrevWrite(prev, e)),
         prev_disk_read |-> PrevRead(prev, e),
         prev_disk_write |-> PrevWrite(prev, e)]

\* the entries of /proc for which read_process returned Some
ReadOk(entries) == SelectSeq(entries, LAMBDA e : e.ok)

\* the Vec<ProcessInfo> collect returns
ProcessCollect(c, total_cpu, cores, entries) ==
    LET delta_total == saturating_sub(total_cpu, c.prev_total_cpu)
        ok == ReadOk(entries)
    IN  [i \in 1..Len(ok) |-> ProcessRates(c.prev_processes, delta_total, cores, ok[i])]

\* prev_processes after the insert of every process read in the call
InsertRead(prev, ok) ==
    LET read == {ok[i].pid : i \in 1..Len(ok)}
    IN  [pid \in DOMAIN prev \cup read |->
            IF pid \in read
            THEN LET e == ok[CHOOSE i \in 1..Len(ok) : ok[i].pid = pid]
                 IN  <<e.total_cpu_time, e.disk_read_bytes, e.disk_write_bytes>>
            ELSE prev[pid]]

\* mutant: dead pids are never pruned
ProcessCollectorAfterNoPrune(c, total_cpu, entries) ==
    [prev_processes |-> InsertRead(c.prev_processes, ReadOk(entries)),
     prev_total_cpu |-> total_cpu]

\* the collector after the call: the counters of the processes read are
\* inserted, then prev_processes.retain(|pid, _| live_pids.contains(pid))
\* with live_pids the pids of the list returned
ProcessCollectorAfter(c, total_cpu, entries) ==
    LET ok == ReadOk(entries)
        inserted == InsertRead(c.prev_processes, ok)
        live_pids == {ok[i].pid : i \in 1..Len(ok)}
    IN  [prev_processes |-> [pid \in DOMAIN inserted \cap live_pids |-> inserted[pid]],
         prev_total_cpu |-> total_cpu]

(***************************************************************************)
(* backend/cpu.rs: CpuCollector::collect                                   *)
(***************************************************************************)
LineTotal(l) == l.user + l.nice + l.system + l.idle + l.iowait + l.irq + l.softirq
LineIdle(l) == l.idle + l.iowait

\* dtotal - didle underflows when the idle ticks grew more than the total
CpuUnderflow(c, l) ==
    LET dtotal == saturating_sub(LineTotal(l), c.prev_total[l.idx])
        didle == saturating_sub(LineIdle(l), c.prev_idle[l.idx])
    IN  dtotal > 0 /\ didle > dtotal

\* the percent of one "cpu" line (idx 0 is the aggregate line)
CpuPercent(c, l) ==
    LET dtotal == saturating_sub(LineTotal(l), c.prev_total[l.idx])
        didle == saturating_sub(LineIdle(l), c.prev_idle[l.idx])
    IN  IF dtotal > 0
        THEN Quot(((dtotal - didle + 2 ^ WordBits) % (2 ^ WordBits)) * 100, dtotal)
        ELSE Zero

CpuCollect(c, lines) ==
    [i \in 1..Len(lines) |->
        [idx |-> lines[i].idx, percent |-> CpuPercent(c, lines[i])]]

CpuCollectorAfter(c, lines) ==
    [prev_total |-> [k \in DOMAIN c.prev_total |->
                        IF \E i \in 1..Len(lines) : lines[i].idx = k
                        THEN LineTotal(lines[CHOOSE i \in 1..Len(lines) : lines[i].idx = k])
                        ELSE c.prev_total[k]],
     prev_idle |-> [k \in DOMAIN c.prev_idle |->
                        IF \E i \in 1..Len(lines) : lines[i].idx = k
                        THEN LineIdle(lines[CHOOSE i \in 1..Len(lines) : lines[i].idx = k])
                        ELSE c.prev_idle[k]]]

(***************************************************************************)
(* backend/history.rs                                                      *)
(***************************************************************************)
AppHistoryNew(name) ==
    [display_name |-> name, cpu_samples |-> <<>>, mem_samples |-> <<>>]

\* mutant: the buffer is trimmed one sample too late
PushOffByOne(h, cpu, mem) ==
    LET c == Append(h.cpu_samples, cpu)
        m == Append(h.mem_samples, mem)
    IN  [h EXCEPT
            !.cpu_samples = IF Len(c) > MAX_SAMPLES + 1 THEN Tail(c) ELSE c,
            !.mem_samples = IF Len(m) > MAX_SAMPLES + 1 THEN Tail(m) ELSE m]

\* AppHistory::push: push_back, then pop_front when over MAX_SAMPLES
Push(h, cpu, mem) ==
    LET c == Append(h.cpu_samples, cpu)
        m == Append(h.mem_samples, mem)
    IN  [h EXCEPT
            !.cpu_samples = IF Len(c) > MAX_SAMPLES THEN Tail(c) ELSE c,
            !.mem_samples = IF Len(m) > MAX_SAMPLES THEN Tail(m) ELSE m]

\* mutant: a sighting always starts from a fresh buffer
EntryAlwaysNew(hs, name) ==
    [n \in DOMAIN hs \cup {name} |->
        IF n = name THEN AppHistoryNew(name) ELSE hs[n]]

\* histories.entry(name).or_insert_with(|| AppHistory::new(&name))
EntryOrInsert(hs, name) ==
    IF name \in DOMAIN hs THEN hs
    ELSE [n \in DOMAIN hs \cup {name} |->
            IF n = name THEN AppHistoryNew(name) ELSE hs[n]]

\* the first loop of update: one push per group, in list order
RECURSIVE PushGroups(_, _, _)
PushGroups(hs, groups, i) ==
    IF i > Len(groups) THEN hs
    ELSE LET name == display_name(groups[i])
             e == EntryOrInsert(hs, name)
         IN  PushGroups(
                [e EXCEPT ![name] =
                    Push(@, groups[i].total_cpu, groups[i].total_memory)],
                groups, i + 1)

SeenNames(groups) == {display_name(groups[i]) : i \in 1..Len(groups)}

AnyPositive(s) == \E i \in 1..Len(s) : s[i] > 0

\* mutant: only the CPU series decides
KeepFadedCpuOnly(h) == AnyPositive(h.cpu_samples)

\* the retain closure's verdict for an absent name, after its zero push
KeepFaded(h) == AnyPositive(h.cpu_samples) \/ AnyPositive(h.mem_samples)

\* mutant: an absent name gets no zero sample
RetainNoZero(hs, seen) ==
    [n \in {m \in DOMAIN hs : m \in seen \/ KeepFaded(hs[m])} |-> hs[n]]

\* histories.retain(...): absent names get a zero sample and are dropped
\* once nothing positive is left
Retain(hs, seen) ==
    LET pushed == [n \in DOMAIN hs |->
                     IF n \in seen THEN hs[n] ELSE Push(hs[n], 0, 0)]
        kept == {n \in DOMAIN hs : n \in seen \/ KeepFaded(pushed[n])}
    IN  [n \in kept |-> pushed[n]]

\* AppHistoryTracker::update
Update(hs, groups) == Retain(PushGroups(hs, groups, 1), SeenNames(groups))

(***************************************************************************)
(* Initial states of the components                                        *)
(***************************************************************************)
\* the display names of the tracker's inputs
Names == {<<"a">>, <<"b">>}

\* AppHistoryTracker::new
NewTracker ==
    /\ histories = << >>
    /\ hPrev = << >>
    /\ hGroups = << >>
    /\ absentRun = [n \in Names |-> 0]
    /\ absentPrev = [n \in Names |-> 0]

\* no build_app_groups call is modelled
GroupsIdle == gProcs = << >> /\ gGroups = << >> /\ gPhase = "idle"

\* no tracker update is modelled
HistoryIdle == NewTracker

\* ProcessCollector::new, DiskCollector::new, NetworkCollector::new,
\* CpuCollector::new (one core: prev_total = prev_idle = vec![0; 2])
NewCollectors ==
    /\ procC = [prev_processes |-> << >>, prev_total_cpu |-> 0]
    /\ procCall = [before |-> [prev_processes |-> << >>, prev_total_cpu |-> 0],
                   total_cpu |-> 0, entries |-> << >>, result |-> << >>]
    /\ diskC = << >>
    /\ diskCall = [before |-> << >>, elapsed |-> 0, lines |-> << >>, result |-> << >>]
    /\ netC = << >>
    /\ netCall = [before |-> << >>, elapsed |-> 0, lines |-> << >>, result |-> << >>]
    /\ cpuC = [prev_total |-> [k \in 0..1 |-> 0], prev_idle |-> [k \in 0..1 |-> 0]]
    /\ cpuCall = [before |-> [prev_total |-> [k \in 0..1 |-> 0],
                              prev_idle |-> [k \in 0..1 |-> 0]],
                  lines |-> << >>, result |-> << >>]
    /\ cpuPanicked = FALSE

\* no sampler thread and no consumer are modelled
LoopIdle ==
    /\ sPc = "idle"
    /\ cycle = 0
    /\ pending = << >>
    /\ chan = << >>
    /\ rxAlive = TRUE
    /\ cPc = "idle"
    /\ latest = << >>
    /\ received = 0
    /\ graph = << >>

\* no stateless function is called
PureIdle == call = [fn |-> "none"]

\* no collector is modelled
RatesIdle ==
    /\ NewCollectors
    /\ rMode = "idle"
    /\ num_cores = 1
    /\ overflowChecks = FALSE

(***************************************************************************)
(* SpecRates: one collector, called cycle after cycle on bounded readings  *)
(***************************************************************************)
InitRates ==
    /\ NewTracker
    /\ GroupsIdle
    /\ LoopIdle
    /\ PureIdle
    /\ NewCollectors
    /\ \/ rMode = "process" /\ num_cores \in {1, 2} /\ overflowChecks = FALSE
       \/ rMode \in {"disk", "net"} /\ num_cores = 1 /\ overflowChecks = FALSE
       \/ rMode = "cpu" /\ num_cores = 1 /\ overflowChecks \in BOOLEAN

\* what /proc holds about pid 1: nothing, or an entry with its cumulative
\* counters (the write counter falls when the read counter rises, so that
\* both directions occur in one cycle)
Pid1Entries ==
    {<< >>}
    \cup {<<[pid |-> 1, ok |-> TRUE, total_cpu_time |-> c,
             disk_read_bytes |-> r, disk_write_bytes |-> MaxCounter - r]>> :
            c \in 0..MaxCounter, r \in 0..MaxCounter}

\* what /proc holds about pid 2: nothing, an entry read_process cannot read
\* (the process exited, or its stat record is truncated), or an entry
Pid2Entries ==
    {<< >>}
    \cup {<<[pid |-> 2, ok |-> FALSE, total_cpu_time |-> 0,
             disk_read_bytes |-> 0, disk_write_bytes |-> 0]>>}
    \cup {<<[pid |-> 2, ok |-> TRUE, total_cpu_time |-> c,
             disk_read_bytes |-> c, disk_write_bytes |-> MaxCounter - c]>> :
            c \in 0..MaxCounter}

\* read_total_cpu_time(): the ticks of all cores together, up to the ticks
\* num_cores cores spend while one process counts MaxCounter
TotalCpuTimes == {0, MaxCounter, num_cores * MaxCounter}

ProcessCollectStep ==
    /\ rMode = "process"
    /\ \E e1 \in Pid1Entries, e2 \in Pid2Entries, total_cpu \in TotalCpuTimes :
        /\ procCall' = [before |-> procC, total_cpu |-> total_cpu,
                        entries |-> e1 \o e2,
                        result |-> ProcessCollect(procC, total_cpu, num_cores, e1 \o e2)]
        /\ procC' = ProcessCollectorAfter(procC, total_cpu, e1 \o e2)
    /\ UNCHANGED <<rMode, num_cores, diskC, diskCall, netC, netCall, cpuC, cpuCall,
                   cpuPanicked, overflowChecks, histVars, groupVars, pureVars, loopVars>>

\* one line of /proc/diskstats or /proc/net/dev: its name, its number of
\* whitespace-separated fields and its two cumulative counters
StatLines(name, parts) ==
    {<<[name |-> name, parts |-> parts, c1 |-> c, c2 |-> MaxCounter - c]>> :
        c \in 0..MaxCounter}

\* time since the previous collect, in microseconds: under the 1 ms clamp,
\* or one second
Elapsed == {500, 1000000}

DiskLines ==
    {a \o b \o c :
        a \in {<< >>} \cup StatLines(<<"s", "d", "a">>, 13)
                \cup StatLines(<<"s", "d", "a">>, 14),
        b \in {<< >>, <<[name |-> <<"s", "d", "a", "1">>, parts |-> 14,
                        c1 |-> MaxCounter, c2 |-> MaxCounter]>>},
        c \in {<< >>} \cup StatLines(<<"n", "v", "m", "e", "0", "n", "1">>, 14)}

DiskCollectStep ==
    /\ rMode = "disk"
    /\ \E lines \in DiskLines, elapsed \in Elapsed :
        /\ diskCall' = [before |-> diskC, elapsed |-> elapsed, lines |-> lines,
                        result |-> DiskCollect(diskC, lines, elapsed)]
        /\ diskC' = DiskEntries(lines)
    /\ UNCHANGED <<rMode, num_cores, procC, procCall, netC, netCall, cpuC, cpuCall,
                   cpuPanicked, overflowChecks, histVars, groupVars, pureVars, loopVars>>

NetLines ==
    {a \o b \o c :
        a \in {<< >>, <<[name |-> <<"l", "o">>, parts |-> 17,
                        c1 |-> MaxCounter, c2 |-> MaxCounter]>>},
        b \in {<< >>} \cup StatLines(<<"e", "t", "h", "0">>, 9)
                \cup StatLines(<<"e", "t", "h", "0">>, 17),
        c \in {<< >>} \cup StatLines(<<"w", "l", "a", "n", "0">>, 17)}

NetCollectStep ==
    /\ rMode = "net"
    /\ \E lines \in NetLines, elapsed \in Elapsed :
        /\ netCall' = [before |-> netC, elapsed |-> elapsed, lines |-> lines,
                       result |-> NetCollect(netC, lines, elapsed)]
        /\ netC' = NetEntries(lines)
    /\ UNCHANGED <<rMode, num_cores, procC, procCall, diskC, diskCall, cpuC, cpuCall,
                   cpuPanicked, overflowChecks, histVars, groupVars, pureVars, loopVars>>

\* a "cpu..." line of /proc/stat
CpuLine(idx, user, idle) ==
    [idx |-> idx, user |-> user, nice |-> 0, system |-> 0, idle |-> idle,
     iowait |-> 0, irq |-> 0, softirq |-> 0]

\* /proc/stat of a one-core machine: the aggregate line, and the cpu0 line
\* with the same ticks unless it is missing
CpuLines ==
    {<<CpuLine(0, u, i)>> : u \in 0..MaxTicks, i \in 0..MaxTicks}
    \cup {<<CpuLine(0, u, i), CpuLine(1, u, i)>> : u \in 0..MaxTicks, i \in 0..MaxTicks}

CpuCollectStep ==
    /\ rMode = "cpu"
    /\ ~cpuPanicked
    /\ \E lines \in CpuLines :
        IF overflowChecks /\ \E k \in 1..Len(lines) : CpuUnderflow(cpuC, lines[k])
        THEN /\ cpuPanicked' = TRUE
             /\ UNCHANGED <<cpuC, cpuCall>>
        ELSE /\ cpuCall' = [before |-> cpuC, lines |-> lines,
                            result |-> CpuCollect(cpuC, lines)]
             /\ cpuC' = CpuCollectorAfter(cpuC, lines)
             /\ UNCHANGED cpuPanicked
    /\ UNCHANGED <<rMode, num_cores, procC, procCall, diskC, diskCall, netC, netCall,
                   overflowChecks, histVars, groupVars, pureVars, loopVars>>

NextRates ==
    ProcessCollectStep \/ DiskCollectStep \/ NetCollectStep \/ CpuCollectStep

SpecRates == InitRates /\ [][NextRates]_vars

(***************************************************************************)
(* SpecHistory: a tracker driven by arbitrary app_groups lists             *)
(***************************************************************************)
HistGroup(name, cpu, mem) ==
    AppGroupNew([DefaultProcessInfo EXCEPT
        !.pid = 1, !.name = name, !.display_name = name,
        !.cpu_percent = cpu, !.memory_bytes = mem])

\* (total_cpu, total_memory) an input group can carry: "a" is idle or uses
\* CPU only, "b" holds memory and uses no CPU
Loads(name) == IF name = <<"a">> THEN {<<0, 0>>, <<1, 0>>}
               ELSE {<<0, 1>>}

HistGroupInputs ==
    UNION {{HistGroup(n, l[1], l[2]) : l \in Loads(n)} : n \in Names}

\* build_app_groups returns its list sorted by total_cpu, descending
SortedByCpu(groups) ==
    \A i \in 1..Len(groups) - 1 : groups[i].total_cpu >= groups[i + 1].total_cpu

\* the lists update can be called with; two groups may carry one display
\* name (two executables whose leaders resolve to the same name)
HistInputs ==
    {gs \in SeqsUpTo(HistGroupInputs, MaxGroups) : SortedByCpu(gs)}

InitHistory == NewTracker /\ GroupsIdle /\ RatesIdle /\ LoopIdle /\ PureIdle

HistoryUpdate ==
    /\ UNCHANGED <<groupVars, pureVars, rateVars, loopVars>>
    /\ \E groups \in HistInputs :
        /\ histories' = Update(histories, groups)
        /\ hPrev' = histories
        /\ hGroups' = groups
        /\ absentPrev' = absentRun
        /\ absentRun' = [n \in Names |->
                            IF n \in SeenNames(groups) THEN 0
                            ELSE IF absentRun[n] < AbsentCap
                                 THEN absentRun[n] + 1 ELSE AbsentCap]

NextHistory == HistoryUpdate

SpecHistory == InitHistory /\ [][NextHistory]_vars

(***************************************************************************)
(* SpecGroups: build_app_groups on bounded process lists                   *)
(***************************************************************************)
\* (name, exe_path, display_name) of the processes of the inputs
Idents ==
    { <<<<"a", "-", "x">>, <<"/", "p">>, <<"a", "-", "x">>>>,
      <<<<"A", "_", "y">>, <<"/", "P">>, <<"T">>>>,
      <<<<"a", "-", "z">>, <<"/", "q">>, <<"a", "-", "z">>>>,
      <<<<"A", "_", "y">>, <<>>, <<>>>>,
      <<<<"b">>, <<>>, <<"T">>>>,
      <<<<"B">>, <<>>, <<"B">>>>,
      <<<<"c", "-", "z">>, <<>>, <<"c", "-", "z">>>> }

\* a process whose exe link cannot be read (another user's process) and
\* whose comm was set to a path
PathNamed == <<<<"/", "p">>, <<>>, <<"/", "p">>>>

\* pid 1 is init, pid 2 is kthreadd; their parent is 0
Pids == 1..4
Ppids(pid) == CASE pid = 1 -> {0} [] pid = 2 -> {0} [] pid = 3 -> {1, 2}
                [] OTHER -> {0, 1}

IdentsOf(pid) ==
    IF pid = 2 THEN {id \in Idents : id[1] \in {<<"a", "-", "x">>, <<"b">>}}
    ELSE IF pid = 4 THEN Idents \cup {PathNamed}
    ELSE Idents

\* a ProcessInfo as ProcessCollector::collect returns it; the metrics are
\* fixed per pid (memory a power of two, so that a sum names its members)
Proc(pid, ppid, id) ==
    [DefaultProcessInfo EXCEPT
        !.pid = pid, !.ppid = ppid,
        !.name = id[1], !.exe_path = id[2], !.display_name = id[3],
        !.cpu_percent = pid % 3,
        !.memory_bytes = 2 ^ (pid - 1),
        !.vram_bytes = pid,
        !.disk_read_rate = 1,
        !.disk_write_rate = pid % 2,
        !.threads = 1]

Variants(pid) == {Proc(pid, pp, id) : pp \in Ppids(pid), id \in IdentsOf(pid)}

InitGroups ==
    /\ HistoryIdle
    /\ RatesIdle
    /\ LoopIdle
    /\ PureIdle
    /\ gProcs = << >>
    /\ gGroups = << >>
    /\ gPhase = "input"

\* the next entry of the process list: a process with a pid not yet listed,
\* in any order (the order of read_dir)
AddProcess ==
    /\ gPhase = "input"
    /\ Len(gProcs) < MaxProcs
    /\ \E pid \in Pids \ {gProcs[i].pid : i \in 1..Len(gProcs)} :
        \E v \in Variants(pid) : gProcs' = Append(gProcs, v)
    /\ UNCHANGED <<gGroups, gPhase, histVars, rateVars, loopVars, pureVars>>

BuildAppGroups ==
    /\ gPhase = "input"
    /\ \E keyOrder \in IterOrders(NameKeys(gProcs)) :
        \E prefixOrder \in IterOrders(PrefixKeys(Singletons(gProcs, keyOrder))) :
            gGroups' = build_app_groups(gProcs, keyOrder, prefixOrder)
    /\ gPhase' = "built"
    /\ UNCHANGED <<gProcs, histVars, rateVars, loopVars, pureVars>>

NextGroups == AddProcess \/ BuildAppGroups

SpecGroups == InitGroups /\ [][NextGroups]_vars

(***************************************************************************)
(* Spec: the sampler thread (Collector::run), the bounded channel and the  *)
(* consumer that polls it (window.rs)                                      *)
(***************************************************************************)
Init ==
    /\ NewTracker
    /\ GroupsIdle
    /\ RatesIdle
    /\ PureIdle
    /\ sPc = "prime"
    /\ cycle = 0
    /\ pending = << >>
    /\ chan = << >>
    /\ rxAlive = TRUE
    /\ cPc = "idle"
    /\ latest = << >>
    /\ received = 0
    /\ graph = << >>

\* /proc/stat at the n-th read of the sampler: ticks only grow
LoopCpuLines(n) == <<CpuLine(0, n, n), CpuLine(1, n, n)>>

\* /proc/diskstats and /proc/net/dev at the n-th read: one disk, the
\* loopback interface and one network interface
LoopDiskLines(n) ==
    <<[name |-> <<"s", "d", "a">>, parts |-> 14, c1 |-> n, c2 |-> 0]>>

LoopNetLines(n) ==
    <<[name |-> <<"l", "o">>, parts |-> 17, c1 |-> n, c2 |-> n],
      [name |-> <<"e", "t", "h", "0">>, parts |-> 17, c1 |-> n, c2 |-> 0]>>

\* what /proc holds about the one user process, pid 3: nothing, or an entry
\* with its cumulative counters
LoopEntries ==
    {<< >>}
    \cup {<<[pid |-> 3, ok |-> TRUE, total_cpu_time |-> c,
             disk_read_bytes |-> c, disk_write_bytes |-> 0]>> :
            c \in 0..MaxCounter}

\* wall-clock time from one pass of the loop to the next, in microseconds:
\* the one-second sleep, and with it the time the pass itself took and the
\* time send stayed blocked on a full channel (ProcessCollector reads no
\* clock; the time is kept for the claims)
CycleTimes == {1000000, 2000000}

\* the ProcessInfo collect pushes for a process it read (the f64 percent is
\* kept to its integer part)
LoopProcessInfo(r) ==
    [DefaultProcessInfo EXCEPT
        !.pid = r.pid, !.ppid = 1, !.name = <<"a">>, !.display_name = <<"a">>,
        !.exe_path = <<"/", "a">>,
        !.cpu_percent = r.cpu_percent[1] \div r.cpu_percent[2],
        !.memory_bytes = 1,
        !.disk_read_rate = r.disk_read_rate,
        !.disk_write_rate = r.disk_write_rate,
        !.threads = 1]

\* let _ = cpu_collector.collect(): the priming read
Prime ==
    /\ sPc = "prime"
    /\ cpuCall' = [before |-> cpuC, lines |-> LoopCpuLines(1),
                   result |-> CpuCollect(cpuC, LoopCpuLines(1))]
    /\ cpuC' = CpuCollectorAfter(cpuC, LoopCpuLines(1))
    /\ sPc' = "sleep0"
    /\ UNCHANGED <<cycle, pending, chan, rxAlive, cPc, latest, received, graph,
                   rMode, num_cores, procC, procCall, diskC, diskCall, netC, netCall,
                   cpuPanicked, overflowChecks, histVars, groupVars, pureVars>>

\* thread::sleep(Duration::from_millis(500))
Sleep0 ==
    /\ sPc = "sleep0"
    /\ sPc' = "collect"
    /\ UNCHANGED <<cycle, pending, chan, rxAlive, cPc, latest, received, graph,
                   histVars, groupVars, pureVars, rateVars>>

\* mutant: the snapshot takes the histories as they were before the update
CollectCycleStaleHistories ==
    /\ sPc = "collect"
    /\ cycle < MaxCycles \/ (~rxAlive /\ cycle <= MaxCycles)
    /\ \E entries \in LoopEntries, elapsed \in CycleTimes :
        LET n == cycle + 2
            cpu == CpuCollect(cpuC, LoopCpuLines(n))
            disk == DiskCollect(diskC, LoopDiskLines(n), 1000000)
            network == NetCollect(netC, LoopNetLines(n), 1000000)
            rates == ProcessCollect(procC, n, num_cores, entries)
            processes == [i \in 1..Len(rates) |-> LoopProcessInfo(rates[i])]
        IN  \E keyOrder \in IterOrders(NameKeys(processes)) :
            \E prefixOrder \in IterOrders(PrefixKeys(Singletons(processes, keyOrder))) :
                LET app_groups == build_app_groups(processes, keyOrder, prefixOrder)
                IN  /\ cpuCall' = [before |-> cpuC, lines |-> LoopCpuLines(n),
                                   result |-> cpu]
                    /\ cpuC' = CpuCollectorAfter(cpuC, LoopCpuLines(n))
                    /\ diskCall' = [before |-> diskC, elapsed |-> 1000000,
                                    lines |-> LoopDiskLines(n), result |-> disk]
                    /\ diskC' = DiskEntries(LoopDiskLines(n))
                    /\ netCall' = [before |-> netC, elapsed |-> 1000000,
                                   lines |-> LoopNetLines(n), result |-> network]
                    /\ netC' = NetEntries(LoopNetLines(n))
                    /\ procCall' = [before |-> procC, total_cpu |-> n,
                                    entries |-> entries, elapsed |-> elapsed,
                                    result |-> rates]
                    /\ procC' = ProcessCollectorAfter(procC, n, entries)
                    /\ histories' = Update(histories, app_groups)
                    /\ hPrev' = histories
                    /\ hGroups' = app_groups
                    /\ absentPrev' = absentRun
                    /\ absentRun' = [m \in Names |->
                                        IF m \in SeenNames(app_groups) THEN 0
                                        ELSE IF absentRun[m] < AbsentCap
                                             THEN absentRun[m] + 1
                                             ELSE absentRun[m]]
                    /\ pending' = [seq |-> cycle + 1,
                                   processes |-> processes,
                                   app_groups |-> app_groups,
                                   cpu |-> cpu, disk |-> disk, network |-> network,
                                   process_count |-> Len(processes),
                                   app_histories |-> histories]
    /\ cycle' = cycle + 1
    /\ sPc' = "send"
    /\ UNCHANGED <<chan, rxAlive, cPc, latest, received, graph, rMode, num_cores,
                   cpuPanicked, overflowChecks, groupVars, pureVars>>

\* one pass of the loop body up to the send: every collector is read, the
\* groups are built, the tracker is updated and the snapshot is assembled
\* (seq numbers the snapshots in the order they are produced)
CollectCycle ==
    /\ sPc = "collect"
    /\ cycle < MaxCycles \/ (~rxAlive /\ cycle <= MaxCycles)
    /\ \E entries \in LoopEntries, elapsed \in CycleTimes :
        LET n == cycle + 2
            cpu == CpuCollect(cpuC, LoopCpuLines(n))
            disk == DiskCollect(diskC, LoopDiskLines(n), 1000000)
            network == NetCollect(netC, LoopNetLines(n), 1000000)
            rates == ProcessCollect(procC, n, num_cores, entries)
            processes == [i \in 1..Len(rates) |-> LoopProcessInfo(rates[i])]
        IN  \E keyOrder \in IterOrders(NameKeys(processes)) :
            \E prefixOrder \in IterOrders(PrefixKeys(Singletons(processes, keyOrder))) :
                LET app_groups == build_app_groups(processes, keyOrder, prefixOrder)
                IN  /\ cpuCall' = [before |-> cpuC, lines |-> LoopCpuLines(n),
                                   result |-> cpu]
                    /\ cpuC' = CpuCollectorAfter(cpuC, LoopCpuLines(n))
                    /\ diskCall' = [before |-> diskC, elapsed |-> 1000000,
                                    lines |-> LoopDiskLines(n), result |-> disk]
                    /\ diskC' = DiskEntries(LoopDiskLines(n))
                    /\ netCall' = [before |-> netC, elapsed |-> 1000000,
                                   lines |-> LoopNetLines(n), result |-> network]
                    /\ netC' = NetEntries(LoopNetLines(n))
                    /\ procCall' = [before |-> procC, total_cpu |-> n,
                                    entries |-> entries, elapsed |-> elapsed,
                                    result |-> rates]
                    /\ procC' = ProcessCollectorAfter(procC, n, entries)
                    /\ histories' = Update(histories, app_groups)
                    /\ hPrev' = histories
                    /\ hGroups' = app_groups
                    /\ absentPrev' = absentRun
                    /\ absentRun' = [m \in Names |->
                                        IF m \in SeenNames(app_groups) THEN 0
                                        ELSE IF absentRun[m] < AbsentCap
                                             THEN absentRun[m] + 1
                                             ELSE absentRun[m]]
                    /\ pending' = [seq |-> cycle + 1,
                                   processes |-> processes,
                                   app_groups |-> app_groups,
                                   cpu |-> cpu, disk |-> disk, network |-> network,
                                   process_count |-> Len(processes),
                                   app_histories |-> Update(histories, app_groups)]
    /\ cycle' = cycle + 1
    /\ sPc' = "send"
    /\ UNCHANGED <<chan, rxAlive, cPc, latest, received, graph, rMode, num_cores,
                   cpuPanicked, overflowChecks, groupVars, pureVars>>

\* mutant: the channel takes the snapshot whatever it already holds
SendUnbounded ==
    /\ sPc = "send"
    /\ IF rxAlive
       THEN /\ chan' = Append(chan, pending)
            /\ sPc' = "sleep"
       ELSE /\ sPc' = "done"
            /\ UNCHANGED chan
    /\ pending' = << >>
    /\ UNCHANGED <<cycle, rxAlive, cPc, latest, received, graph,
                   histVars, groupVars, pureVars, rateVars>>

\* mutant: a failed send does not leave the loop
SendKeepsLooping ==
    /\ sPc = "send"
    /\ IF rxAlive
       THEN /\ Len(chan) < ChannelCap
            /\ chan' = Append(chan, pending)
            /\ sPc' = "sleep"
       ELSE /\ sPc' = "sleep"
            /\ UNCHANGED chan
    /\ pending' = << >>
    /\ UNCHANGED <<cycle, rxAlive, cPc, latest, received, graph,
                   histVars, groupVars, pureVars, rateVars>>

\* self.tx.send(snapshot): returns Ok once the channel has room, Err when
\* the receiver is gone (break); with a full channel and a live receiver the
\* thread stays blocked in the call
Send ==
    /\ sPc = "send"
    /\ IF rxAlive
       THEN /\ Len(chan) < ChannelCap
            /\ chan' = Append(chan, pending)
            /\ sPc' = "sleep"
       ELSE /\ sPc' = "done"
            /\ UNCHANGED chan
    /\ pending' = << >>
    /\ UNCHANGED <<cycle, rxAlive, cPc, latest, received, graph,
                   histVars, groupVars, pureVars, rateVars>>

\* thread::sleep(Duration::from_secs(1))
Sleep ==
    /\ sPc = "sleep"
    /\ sPc' = "collect"
    /\ UNCHANGED <<cycle, pending, chan, rxAlive, cPc, latest, received, graph,
                   histVars, groupVars, pureVars, rateVars>>

\* GraphWidget::push_values for one series: push_back, then pop_front when
\* the series is longer than window_size (POINTS_1MIN until it is changed)
push_values(series, val) ==
    LET s == Append(series, val)
    IN  IF Len(s) > POINTS_1MIN THEN Tail(s) ELSE s

\* the 100 ms timeout fires: the closure starts draining the channel
Poll ==
    /\ cPc = "idle"
    /\ rxAlive
    /\ cPc' = "draining"
    /\ UNCHANGED <<sPc, cycle, pending, chan, rxAlive, latest, received, graph,
                   histVars, groupVars, pureVars, rateVars>>

\* mutant: the closure keeps the first snapshot it ever received
TryRecvKeepsFirst ==
    /\ cPc = "draining"
    /\ IF chan # << >>
       THEN /\ latest' = (IF latest = << >> THEN Head(chan) ELSE latest)
            /\ chan' = Tail(chan)
            /\ received' = received + 1
            /\ UNCHANGED cPc
       ELSE /\ cPc' = "idle"
            /\ UNCHANGED <<latest, chan, received>>
    /\ UNCHANGED <<sPc, cycle, pending, rxAlive, graph,
                   histVars, groupVars, pureVars, rateVars>>

\* while let Ok(snapshot) = rx.try_recv(): one try_recv; an empty channel
\* ends the loop (what the tabs then draw is followed in SpecGraph)
TryRecv ==
    /\ cPc = "draining"
    /\ IF chan # << >>
       THEN /\ latest' = Head(chan)
            /\ chan' = Tail(chan)
            /\ received' = received + 1
            /\ UNCHANGED cPc
       ELSE /\ cPc' = "idle"
            /\ UNCHANGED <<latest, chan, received>>
    /\ UNCHANGED <<sPc, cycle, pending, rxAlive, graph,
                   histVars, groupVars, pureVars, rateVars>>

\* the timeout source is destroyed with the window: the closure and the
\* Receiver it owns are dropped, and with them the snapshots still queued
DropReceiver ==
    /\ cPc = "idle"
    /\ rxAlive
    /\ rxAlive' = FALSE
    /\ chan' = << >>
    /\ UNCHANGED <<sPc, cycle, pending, cPc, latest, received, graph,
                   histVars, groupVars, pureVars, rateVars>>

SamplerStep == Prime \/ Sleep0 \/ CollectCycle \/ Send \/ Sleep

ConsumerStep == Poll \/ TryRecv \/ DropReceiver

Next == SamplerStep \/ ConsumerStep

Spec == Init /\ [][Next]_vars

\* the collector thread is scheduled and its sleeps end
SpecFair == Init /\ [][Next]_vars /\ WF_vars(SamplerStep)

(***************************************************************************)
(* SpecGraph: the same loop with the series of the CPU graph, which the    *)
(* poll closure feeds (window.rs: timeout_add_local; ui/performance_tab.rs *)
(* CpuPanel::update; ui/graph_widget.rs push_values)                       *)
(***************************************************************************)
\* one try_recv of the closure; an empty channel ends the drain and the
\* closure goes on: if let Some(snapshot) = the latest snapshot, whether
\* this firing received it or an earlier one did, performance_tab.update
\* pushes its total cpu percent to the graph
TryRecvUpdate ==
    /\ cPc = "draining"
    /\ IF chan # << >>
       THEN /\ latest' = Head(chan)
            /\ chan' = Tail(chan)
            /\ received' = received + 1
            /\ UNCHANGED <<cPc, graph>>
       ELSE /\ cPc' = "idle"
            /\ graph' = (IF latest # << >>
                         THEN push_values(graph, [seq |-> latest.seq,
                                                  value |-> latest.cpu[1].percent])
                         ELSE graph)
            /\ UNCHANGED <<latest, chan, received>>
    /\ UNCHANGED <<sPc, cycle, pending, rxAlive, histVars, groupVars, pureVars, rateVars>>

NextGraph == SamplerStep \/ Poll \/ TryRecvUpdate \/ DropReceiver

SpecGraph == Init /\ [][NextGraph]_vars

\* C27 (as stated): each snapshot received contributes exactly one sample to
\* the graph and a firing of the poll timer with no new snapshot adds none:
\* no snapshot is the source of two samples, and between two firings the
\* series is the last POINTS_1MIN of the snapshots 1..received, in order
C27_OneSamplePerSnapshot ==
    /\ \A i, j \in 1..Len(graph) : i # j => graph[i].seq # graph[j].seq
    /\ cPc = "idle" =>
          /\ Len(graph) = (IF received < POINTS_1MIN THEN received
                           ELSE POINTS_1MIN)
          /\ \A i \in 1..Len(graph) :
                graph[i].seq = received - Len(graph) + i

(***************************************************************************)
(* SpecReads: the sampler thread on a machine where one source read of a   *)
(* cycle may fail (backend/process.rs: collect, read_process)              *)
(***************************************************************************)
\* the text of n one-character fields, each preceded by a space
RECURSIVE FieldText(_)
FieldText(n) == IF n = 0 THEN << >> ELSE <<" ", "f">> \o FieldText(n - 1)

\* a complete /proc/3/stat record: pid, (comm), then the fields
FullStat == <<"3", " ", "(", "a", ")">> \o FieldText(StatFields)

\* str::find(c) and str::rfind(c) as 1-based positions, 0 for None
FindChar(s, c) ==
    IF \E i \in 1..Len(s) : s[i] = c
    THEN CHOOSE i \in 1..Len(s) : s[i] = c /\ \A k \in 1..(i - 1) : s[k] # c
    ELSE 0

RFindChar(s, c) ==
    IF \E i \in 1..Len(s) : s[i] = c
    THEN CHOOSE i \in 1..Len(s) : s[i] = c /\ \A k \in (i + 1)..Len(s) : s[k] # c
    ELSE 0

\* split_whitespace().count(): the number of maximal runs of non-spaces
SplitCount(s) ==
    Cardinality({k \in 1..Len(s) : s[k] # " " /\ (k = 1 \/ s[k - 1] = " ")})

\* read_process up to the field-count test: "none" for an early return of
\* None, "panic" for a slice out of range, "some" when the record is used.
\* With i and j the 1-based positions of the first '(' and the last ')',
\* stat[comm_start + 1..comm_end] needs i < j and stat[comm_end + 2..] needs
\* a character after the ')'.
ReadProcessOutcome(statFile, statusFile) ==
    IF ~statFile.ok \/ ~statusFile.ok THEN "none"
    ELSE LET stat == statFile.text
             i == FindChar(stat, "(")
             j == RFindChar(stat, ")")
         IN  IF i = 0 \/ j = 0 THEN "none"
             ELSE IF i > j THEN "panic"
             ELSE IF j + 1 > Len(stat) THEN "panic"
             ELSE IF SplitCount(SubSeq(stat, j + 2, Len(stat))) < StatFields
                  THEN "none"
             ELSE "some"

\* fs::read_dir("/proc").unwrap_or_else(|_| fs::read_dir("/proc").unwrap()):
\* the listing is retried once, and the retry is unwrapped
ReadDirPanics(first_ok, retry_ok) == ~first_ok /\ ~retry_ok

\* the read that fails in a cycle: none, the listing of /proc (once, or also
\* on the retry), a file of the process, a system-wide file, or the stat
\* record of the process cut after k characters
Faults ==
    {<<f, 0>> : f \in {"none", "dir_once", "dir_twice", "stat_missing",
                       "status_missing", "io_missing", "exe_missing",
                       "proc_stat", "diskstats", "net_dev"}}
    \cup {<<"stat_truncated", k>> : k \in 0..(Len(FullStat) - 1)}

StatFileOf(fault) ==
    IF fault[1] = "stat_missing" THEN [ok |-> FALSE, text |-> << >>]
    ELSE IF fault[1] = "stat_truncated"
         THEN [ok |-> TRUE, text |-> SubSeq(FullStat, 1, fault[2])]
    ELSE [ok |-> TRUE, text |-> FullStat]

StatusFileOf(fault) == [ok |-> fault[1] # "status_missing"]

\* the entry of pid 3 as read_process leaves it: unreadable files give the
\* defaults (no exe path, zero I/O counters)
ReadEntries(fault, n) ==
    <<[pid |-> 3,
       ok |-> ReadProcessOutcome(StatFileOf(fault), StatusFileOf(fault)) = "some",
       total_cpu_time |-> n,
       disk_read_bytes |-> IF fault[1] = "io_missing" THEN 0 ELSE n,
       disk_write_bytes |-> 0]>>

ReadProcessInfo(r, fault) ==
    [LoopProcessInfo(r) EXCEPT
        !.exe_path = IF fault[1] = "exe_missing" THEN << >> ELSE @]

\* one pass of the loop body with at most one failing read: the pass ends in
\* a panic of the thread, or completes like any other pass
ReadCycle ==
    /\ sPc = "collect"
    /\ cycle < MaxCycles
    /\ \E fault \in Faults :
        LET n == cycle + 2
            cpuLines == IF fault[1] = "proc_stat" THEN << >> ELSE LoopCpuLines(n)
            diskLines == IF fault[1] = "diskstats" THEN << >> ELSE LoopDiskLines(n)
            netLines == IF fault[1] = "net_dev" THEN << >> ELSE LoopNetLines(n)
            total_cpu == IF fault[1] = "proc_stat" THEN 0 ELSE n
            entries == ReadEntries(fault, n)
            cpu == CpuCollect(cpuC, cpuLines)
            disk == DiskCollect(diskC, diskLines, 1000000)
            network == NetCollect(netC, netLines, 1000000)
            rates == ProcessCollect(procC, total_cpu, num_cores, entries)
            processes == [i \in 1..Len(rates) |-> ReadProcessInfo(rates[i], fault)]
        IN  /\ cpuCall' = [before |-> cpuC, lines |-> cpuLines, result |-> cpu]
            /\ cpuC' = CpuCollectorAfter(cpuC, cpuLines)
            /\ diskCall' = [before |-> diskC, elapsed |-> 1000000,
                            lines |-> diskLines, result |-> disk]
            /\ diskC' = DiskEntries(diskLines)
            /\ netCall' = [before |-> netC, elapsed |-> 1000000,
                           lines |-> netLines, result |-> network]
            /\ netC' = NetEntries(netLines)
            /\ IF \/ ReadDirPanics(fault[1] \notin {"dir_once", "dir_twice"},
                                   fault[1] # "dir_twice")
                  \/ ReadProcessOutcome(StatFileOf(fault), StatusFileOf(fault)) = "panic"
               THEN /\ procCall' = [before |-> procC, total_cpu |-> total_cpu,
                                    entries |-> entries, result |-> << >>,
                                    fault |-> fault]
                    /\ sPc' = "panicked"
                    /\ UNCHANGED <<procC, histVars, pending, cycle>>
               ELSE \E keyOrder \in IterOrders(NameKeys(processes)) :
                    \E prefixOrder \in
                            IterOrders(PrefixKeys(Singletons(processes, keyOrder))) :
                        LET app_groups ==
                                build_app_groups(processes, keyOrder, prefixOrder)
                        IN  /\ procCall' = [before |-> procC, total_cpu |-> total_cpu,
                                            entries |-> entries, result |-> rates,
                                            fault |-> fault]
                            /\ procC' = ProcessCollectorAfter(procC, total_cpu, entries)
                            /\ histories' = Update(histories, app_groups)
                            /\ hPrev' = histories
                            /\ hGroups' = app_groups
                            /\ absentPrev' = absentRun
                            /\ absentRun' = [m \in Names |->
                                                IF m \in SeenNames(app_groups) THEN 0
                                                ELSE IF absentRun[m] < AbsentCap
                                                     THEN absentRun[m] + 1
                                                     ELSE absentRun[m]]
                            /\ pending' = [seq |-> cycle + 1,
                                           processes |-> processes,
                                           app_groups |-> app_groups,
                                           cpu |-> cpu, disk |-> disk,
                                           network |-> network,
                                           process_count |-> Len(processes),
                                           app_histories |->
                                                Update(histories, app_groups)]
                            /\ cycle' = cycle + 1
                            /\ sPc' = "send"
    /\ UNCHANGED <<chan, rxAlive, cPc, latest, received, graph, rMode, num_cores,
                   cpuPanicked, overflowChecks, groupVars, pureVars>>

\* the consumer is left out: the channel takes the first snapshots and the
\* sampler then stays in send
NextReads == Prime \/ Sleep0 \/ ReadCycle \/ Send \/ Sleep

SpecReads == Init /\ [][NextReads]_vars

(***************************************************************************)
(* backend/process.rs: resolve_display_name, is_interpreter,               *)
(* script_display_name                                                     *)
(***************************************************************************)
\* Option<String>: None is the empty sequence, Some(v) is <<v>>
None == << >>

\* the non-empty pieces of s between occurrences of c, in order
RECURSIVE SplitOn(_, _)
SplitOn(s, c) ==
    LET k == FindChar(s, c)
    IN  IF s = << >> THEN << >>
        ELSE IF Head(s) = c THEN SplitOn(Tail(s), c)
        ELSE IF k = 0 THEN <<s>>
        ELSE <<SubSeq(s, 1, k - 1)>> \o SplitOn(SubSeq(s, k, Len(s)), c)

\* /proc/<pid>/cmdline with every NUL replaced by a space, trimmed: the
\* arguments joined by single spaces
RECURSIVE CommandOf(_)
CommandOf(argv) ==
    IF argv = << >> THEN << >>
    ELSE IF Len(argv) = 1 THEN argv[1]
    ELSE argv[1] \o <<" ">> \o CommandOf(Tail(argv))

\* exe_path.rsplit('/').next(): the text after the last '/', all of it when
\* there is none (the iterator is never empty, so unwrap_or does not apply)
ExeBasename(exe_path) == SubSeq(exe_path, RFindChar(exe_path, "/") + 1, Len(exe_path))

\* matches!(basename.to_lowercase(), "bash" | "sh" | ...)
is_interpreter(basename) ==
    to_lowercase(basename) \in
        { <<"b", "a", "s", "h">>, <<"s", "h">>, <<"z", "s", "h">>,
          <<"f", "i", "s", "h">>, <<"d", "a", "s", "h">>,
          <<"p", "y", "t", "h", "o", "n">>, <<"p", "y", "t", "h", "o", "n", "3">>,
          <<"p", "y", "t", "h", "o", "n", "2">>,
          <<"p", "e", "r", "l">>, <<"r", "u", "b", "y">>, <<"n", "o", "d", "e">>,
          <<"n", "o", "d", "e", "j", "s">>,
          <<"j", "a", "v", "a">>, <<"j", "a", "v", "a", "w">>,
          <<"d", "o", "t", "n", "e", "t">>, <<"m", "o", "n", "o">> }

\* the stems for which the parent directory names the script
GenericStems ==
    { <<"m", "a", "i", "n">>, <<"a", "p", "p">>, <<"r", "u", "n">>,
      <<"_", "_", "m", "a", "i", "n", "_", "_">>,
      <<"m", "a", "n", "a", "g", "e">>, <<"s", "e", "r", "v", "e", "r">>,
      <<"i", "n", "d", "e", "x">>, <<"c", "l", "i">> }

\* arg.contains('/') || arg.ends_with(".py") || ...
PathLike(arg) ==
    LET EndsWith(suf) ==
            Len(arg) >= Len(suf)
                /\ SubSeq(arg, Len(arg) - Len(suf) + 1, Len(arg)) = suf
    IN  \/ Contains(arg, "/")
        \/ \E ext \in { <<".", "p", "y">>, <<".", "s", "h">>, <<".", "r", "b">>,
                        <<".", "p", "l">>, <<".", "j", "s">> } : EndsWith(ext)

\* Path::components of a Unix path, the root left out: the pieces between
\* slashes, "." pieces dropped
Components(path) == SelectSeq(SplitOn(path, "/"), LAMBDA x : x # <<".">>)

\* the stem of a file name: the text before its last '.', the whole name
\* when it has no '.' or only a leading one
StemOf(name) ==
    LET k == RFindChar(name, ".")
    IN  IF k <= 1 THEN name ELSE SubSeq(name, 1, k - 1)

\* the body of the loop of script_display_name for the first path-like
\* argument: file_stem()? and, for a generic stem, parent.file_name()?, where
\* Path::file_name is the last component unless there is none or it is ".."
NameFromScript(arg) ==
    LET FileName(comps) ==
            IF comps = << >> \/ comps[Len(comps)] = <<".", ".">> THEN None
            ELSE <<comps[Len(comps)]>>
        all == Components(arg)
    IN  IF FileName(all) = None THEN None
        ELSE LET stem == StemOf(FileName(all)[1])
             IN  IF stem \in GenericStems
                 THEN FileName(SubSeq(all, 1, Len(all) - 1))
                 ELSE <<stem>>

\* the loop of script_display_name over the arguments from index i on
RECURSIVE ScanArgs(_, _)
ScanArgs(args, i) ==
    IF i > Len(args) THEN None
    ELSE IF Head(args[i]) = "-" THEN ScanArgs(args, i + 1)
    ELSE IF PathLike(args[i]) THEN NameFromScript(args[i])
    ELSE ScanArgs(args, i + 1)

\* cmdline.split_whitespace().skip(1)
script_display_name(cmdline) == ScanArgs(SplitOn(cmdline, " "), 2)

\* resolve_display_name: the display name it leaves in info, and the number
\* of the priority that set it (4: the comm name read_process had put there)
resolve_display_name(info, window_titles, desktop_names) ==
    LET exe_basename == ExeBasename(info.exe_path)
    IN  IF info.pid \in DOMAIN window_titles /\ window_titles[info.pid] # << >>
        THEN [display_name |-> window_titles[info.pid], rule |-> 1]
        ELSE IF exe_basename \in DOMAIN desktop_names
        THEN [display_name |-> desktop_names[exe_basename], rule |-> 2]
        ELSE IF to_lowercase(exe_basename) \in DOMAIN desktop_names
        THEN [display_name |-> desktop_names[to_lowercase(exe_basename)], rule |-> 2]
        ELSE IF is_interpreter(exe_basename)
                /\ script_display_name(info.command) # None
        THEN [display_name |-> script_display_name(info.command)[1], rule |-> 3]
        ELSE [display_name |-> info.name, rule |-> 4]

(***************************************************************************)
(* backend/memory.rs: MemoryCollector::collect                             *)
(***************************************************************************)
\* parts[1].parse().unwrap_or(0) * 1024 as a u64: a byte count is kept as
\* <<MiB, remaining bytes>>, value MiB * 2^20 + remaining bytes, so that
\* multi-gigabyte counts stay exact
Bytes(kb) == <<kb \div 1024, (kb % 1024) * 1024>>

\* u64::saturating_sub on byte counts
saturating_sub_bytes(a, b) ==
    IF a[1] < b[1] \/ (a[1] = b[1] /\ a[2] < b[2]) THEN <<0, 0>>
    ELSE IF a[2] >= b[2] THEN <<a[1] - b[1], a[2] - b[2]>>
    ELSE <<a[1] - b[1] - 1, a[2] + 1048576 - b[2]>>

\* a line of /proc/meminfo: its first part, the number of its parts, and its
\* second part parsed as u64 (<< >> when it does not parse or is missing)
MemVal(line) == IF line.kb = << >> THEN Bytes(0) ELSE Bytes(line.kb[1])

\* the first loop of collect over the lines from index i on
RECURSIVE MemScan(_, _, _)
MemScan(info, lines, i) ==
    IF i > Len(lines) THEN info
    ELSE LET line == lines[i]
             val == MemVal(line)
         IN  IF line.parts < 2 THEN MemScan(info, lines, i + 1)
             ELSE MemScan(
                    CASE line.key = "MemTotal:" -> [info EXCEPT !.total = val]
                      [] line.key = "MemAvailable:" -> [info EXCEPT !.available = val]
                      [] line.key = "Cached:" -> [info EXCEPT !.cached = val]
                      [] line.key = "SwapTotal:" -> [info EXCEPT !.swap_total = val]
                      [] line.key = "SwapFree:" ->
                            [info EXCEPT !.swap_used =
                                saturating_sub_bytes(info.swap_total, val)]
                      [] OTHER -> info,
                    lines, i + 1)

\* collect without the second pass over the lines
MemoryCollectOnePass(meminfo) ==
    LET zero == Bytes(0)
        scanned == MemScan([total |-> zero, used |-> zero, available |-> zero,
                            cached |-> zero, swap_total |-> zero,
                            swap_used |-> zero], meminfo, 1)
    IN  [scanned EXCEPT !.used = saturating_sub_bytes(scanned.total, scanned.available)]

\* MemoryCollector::collect on the lines of /proc/meminfo (none when the
\* file cannot be read); the second loop leaves in swap_free the value of
\* the last SwapFree line
MemoryCollect(meminfo) ==
    LET zero == Bytes(0)
        scanned == MemScan([total |-> zero, used |-> zero, available |-> zero,
                            cached |-> zero, swap_total |-> zero,
                            swap_used |-> zero], meminfo, 1)
        frees == {i \in 1..Len(meminfo) :
                    meminfo[i].parts >= 2 /\ meminfo[i].key = "SwapFree:"}
        swap_free == IF frees = {} THEN zero
                     ELSE MemVal(meminfo[CHOOSE i \in frees : \A k \in frees : k <= i])
    IN  [scanned EXCEPT
            !.used = saturating_sub_bytes(scanned.total, scanned.available),
            !.swap_used = saturating_sub_bytes(scanned.swap_total, swap_free)]

(***************************************************************************)
(* backend/battery.rs: BatteryCollector::collect                           *)
(***************************************************************************)
\* collect on the files of the battery's sysfs directory, each an Option
\* (<< >> when the file is missing or does not parse); battery_path says
\* whether a battery was found, overflow_checks whether the build traps
\* integer overflow. The f64 quotient (energy_wh / power_watts) * 3600.0 is
\* kept exact and truncated by the cast to u64
BatteryCollect(battery_path, sysfs, overflow_checks) ==
    LET Default == [panicked |-> FALSE, available |-> FALSE, status |-> << >>,
                    energy_now |-> 0, energy_full |-> 0, power_now |-> 0,
                    time_remaining_secs |-> 0]
        Product(a, b) == IF a # << >> /\ b # << >>
                         THEN (a[1] * b[1]) \div 1000000 ELSE 0
        energy_now == IF sysfs.energy_now # << >> THEN sysfs.energy_now[1]
                      ELSE Product(sysfs.charge_now, sysfs.voltage_now)
        energy_full == IF sysfs.energy_full # << >> THEN sysfs.energy_full[1]
                       ELSE Product(sysfs.charge_full, sysfs.voltage_now)
        status == IF sysfs.status # << >> THEN sysfs.status[1] ELSE "Unknown"
        power_now == IF sysfs.power_now # << >> THEN sysfs.power_now[1]
                     ELSE Product(sysfs.current_now, sysfs.voltage_now)
        charging == status = "Charging"
        energy == IF charging
                  THEN (energy_full - energy_now + 2 ^ WordBits) % (2 ^ WordBits)
                  ELSE energy_now
    IN  IF ~battery_path THEN Default
        ELSE IF power_now > 0 /\ charging /\ energy_now > energy_full
                /\ overflow_checks
        THEN [Default EXCEPT !.panicked = TRUE]
        ELSE [panicked |-> FALSE, available |-> TRUE, status |-> status,
              energy_now |-> energy_now, energy_full |-> energy_full,
              power_now |-> power_now,
              time_remaining_secs |-> IF power_now > 0
                                      THEN (energy * 3600) \div power_now
                                      ELSE 0]

(***************************************************************************)
(* SpecPure: the stateless functions, each called once on an input drawn   *)
(* from a bounded set                                                      *)
(***************************************************************************)
\* the argument vectors of the process
Argvs ==
    { << >>,
      <<<<"s", "h">>>>,
      <<<<"s", "h">>, <<"-", "x">>, <<"d", "/", "m", "a", "i", "n", ".", "p", "y">>>>,
      <<<<"s", "h">>, <<"m", ".", "p", "y">>>>,
      <<<<"s", "h">>, <<"m", "a", "i", "n", ".", "p", "y">>>>,
      <<<<"s", "h">>, <<"x">>, <<"a", "/", "b", ".", "c", "/", "r", "u", "n">>>>,
      <<<<"s", "h">>, <<"q", "/", "s", ".", "s", "h">>,
        <<"d", "/", "m", "a", "i", "n", ".", "p", "y">>>>,
      <<<<"s", "h">>, <<"m", "y", " ", "d", "i", "r", "/", "a", "p", "p", ".", "j", "s">>>>,
      <<<<"s", "h">>, <<".", "/", "i", "n", "d", "e", "x", ".", "j", "s">>>> }

\* the arguments of one resolve_display_name call; info is as read_process
\* returns it (display_name = name). The exe link reads as nothing, an
\* interpreter or another program; the window-title index has no entry for
\* the pid, an empty title or a title; the desktop-entry index holds names
\* under the Exec basename or its lower-cased form
ResolveCalls ==
    LET ExePaths ==
            { << >>, <<"/", "b", "/", "S", "h">>, <<"/", "b", "/", "f", "x">> }
        WindowTitles ==
            { << >>, [p \in {7} |-> << >>], [p \in {7} |-> <<"W">>],
              [p \in {8} |-> <<"W">>] }
        DesktopNames ==
            { << >>,
              [k \in {<<"S", "h">>} |-> <<"D">>],
              [k \in {<<"s", "h">>} |-> <<"d">>],
              [k \in {<<"S", "h">>, <<"s", "h">>} |->
                    IF k = <<"S", "h">> THEN <<"D">> ELSE <<"d">>],
              [k \in {<<"f", "x">>} |-> <<"F">>] }
    IN  { [fn |-> "resolve_display_name", returned |-> FALSE, result |-> None,
           info |-> [pid |-> 7, name |-> <<"c">>, display_name |-> <<"c">>,
                     exe_path |-> exe, command |-> CommandOf(argv)],
           argv |-> argv, window_titles |-> wt, desktop_names |-> dn] :
            exe \in ExePaths, argv \in Argvs, wt \in WindowTitles,
            dn \in DesktopNames }

\* the contents of /proc/meminfo: the lines of interest in every order, each
\* present or not, SwapFree also without a value or with one that does not
\* parse, among a line the collector ignores
MemCalls ==
    LET Line(key, kb) == [key |-> key, parts |-> 3, kb |-> kb]
        Totals == { {Line("MemTotal:", <<16777216>>)}, {Line("MemTotal:", <<5>>)} }
        Avails == { {}, {Line("MemAvailable:", <<8388608>>)},
                    {Line("MemAvailable:", <<7>>)} }
        SwapTotals == { {}, {Line("SwapTotal:", <<3>>)} }
        SwapFrees == { {Line("SwapFree:", <<1>>)}, {Line("SwapFree:", <<4>>)},
                       {Line("SwapFree:", << >>)},
                       {[key |-> "SwapFree:", parts |-> 1, kb |-> << >>]} }
        Others == { {Line("Cached:", <<2>>)}, {Line("Buffers:", <<1025>>)} }
    IN  { [fn |-> "MemoryCollector::collect", returned |-> FALSE,
           result |-> None, meminfo |-> m] :
            m \in UNION { IterOrders(t \cup a \cup st \cup sf \cup o) :
                            t \in Totals, a \in Avails, st \in SwapTotals,
                            sf \in SwapFrees, o \in Others } }

\* the battery's sysfs files: energy in microwatt-hours or, failing that,
\* charge and voltage; the status; power in microwatts or, failing that,
\* current and voltage
BatteryCalls ==
    { [fn |-> "BatteryCollector::collect", returned |-> FALSE, result |-> None,
       battery_path |-> b, overflow_checks |-> oc,
       sysfs |-> [energy_now |-> en, charge_now |-> cn, voltage_now |-> vn,
                  energy_full |-> ef, charge_full |-> cf, status |-> st,
                  power_now |-> pn, current_now |-> cur]] :
        b \in BOOLEAN, oc \in BOOLEAN,
        en \in {<< >>, <<0>>, <<1>>, <<3>>}, cn \in {<< >>, <<1>>},
        vn \in {<< >>, <<1000000>>},
        ef \in {<< >>, <<2>>}, cf \in {<< >>, <<2>>},
        st \in {<< >>, <<"Charging">>, <<"Discharging">>},
        pn \in {<< >>, <<0>>, <<2>>}, cur \in {<< >>, <<3>>} }

InitPure ==
    /\ NewTracker
    /\ GroupsIdle
    /\ RatesIdle
    /\ LoopIdle
    /\ call \in ResolveCalls \cup MemCalls \cup BatteryCalls

ResolveDisplayName ==
    /\ call.fn = "resolve_display_name"
    /\ ~call.returned
    /\ call' = [call EXCEPT
                    !.returned = TRUE,
                    !.result = resolve_display_name(call.info, call.window_titles,
                                                    call.desktop_names)]
    /\ UNCHANGED <<histVars, groupVars, rateVars, loopVars>>

MemoryCollectStep ==
    /\ call.fn = "MemoryCollector::collect"
    /\ ~call.returned
    /\ call' = [call EXCEPT !.returned = TRUE,
                            !.result = MemoryCollect(call.meminfo)]
    /\ UNCHANGED <<histVars, groupVars, rateVars, loopVars>>

BatteryCollectStep ==
    /\ call.fn = "BatteryCollector::collect"
    /\ ~call.returned
    /\ call' = [call EXCEPT
                    !.returned = TRUE,
                    !.result = BatteryCollect(call.battery_path, call.sysfs,
                                              call.overflow_checks)]
    /\ UNCHANGED <<histVars, groupVars, rateVars, loopVars>>

NextPure == ResolveDisplayName \/ MemoryCollectStep \/ BatteryCollectStep

SpecPure == InitPure /\ [][NextPure]_vars

(***************************************************************************)
(* Claims about the delta-rate collectors                                  *)
(***************************************************************************)
\* the (name, bytes, bytes) entry of name in a prev_stats list, <<>> if none
StatOf(stats, name) ==
    IF FindByName(stats, name) = 0 THEN << >> ELSE stats[FindByName(stats, name)]

\* C7: a process with no retained counters reports cpu_percent 0 and disk
\* rates 0 in the cycle that first observes it, and a device or interface
\* that was not in the previous cycle's list (in particular any one in a
\* collector's first cycle) reports rates 0.
C7_FirstCycleZero ==
    /\ \A i \in 1..Len(procCall.result) :
        LET p == procCall.result[i]
        IN  p.pid \notin DOMAIN procCall.before.prev_processes =>
              /\ IsZero(p.cpu_percent)
              /\ p.disk_read_rate = 0
              /\ p.disk_write_rate = 0
    /\ \A i \in 1..Len(diskCall.result) :
        LET d == diskCall.result[i]
        IN  StatOf(diskCall.before, d.name) = << >> =>
              IsZero(d.rate1) /\ IsZero(d.rate2)
    /\ \A i \in 1..Len(netCall.result) :
        LET d == netCall.result[i]
        IN  StatOf(netCall.before, d.name) = << >> =>
              IsZero(d.rate1) /\ IsZero(d.rate2)

\* the part of C7 about disk rates, devices and interfaces alone
C7_FirstCycleZeroIo ==
    /\ \A i \in 1..Len(procCall.result) :
        LET p == procCall.result[i]
        IN  p.pid \notin DOMAIN procCall.before.prev_processes =>
              p.disk_read_rate = 0 /\ p.disk_write_rate = 0
    /\ \A i \in 1..Len(diskCall.result) :
        LET d == diskCall.result[i]
        IN  StatOf(diskCall.before, d.name) = << >> =>
              IsZero(d.rate1) /\ IsZero(d.rate2)
    /\ \A i \in 1..Len(netCall.result) :
        LET d == netCall.result[i]
        IN  StatOf(netCall.before, d.name) = << >> =>
              IsZero(d.rate1) /\ IsZero(d.rate2)

\* the line of the last CpuCollector call that carries index idx
CpuLineOf(idx) ==
    cpuCall.lines[CHOOSE k \in 1..Len(cpuCall.lines) : cpuCall.lines[k].idx = idx]

\* C8: wherever the current cumulative counter does not exceed the retained
\* one, the rate or percent computed from it is exactly 0: CPU ticks,
\* per-device disk bytes, per-interface network bytes, per-process CPU time
\* and per-process I/O bytes.
C8_NoNegativeDelta ==
    /\ \A i \in 1..Len(cpuCall.result) :
        LET r == cpuCall.result[i]
        IN  LineTotal(CpuLineOf(r.idx)) <= cpuCall.before.prev_total[r.idx] =>
              IsZero(r.percent)
    /\ \A i \in 1..Len(diskCall.result) :
        LET d == diskCall.result[i]
            prev == StatOf(diskCall.before, d.name)
        IN  prev # << >> =>
              /\ d.total1 <= prev[2] => IsZero(d.rate1)
              /\ d.total2 <= prev[3] => IsZero(d.rate2)
    /\ \A i \in 1..Len(netCall.result) :
        LET d == netCall.result[i]
            prev == StatOf(netCall.before, d.name)
        IN  prev # << >> =>
              /\ d.total1 <= prev[2] => IsZero(d.rate1)
              /\ d.total2 <= prev[3] => IsZero(d.rate2)
    /\ \A i \in 1..Len(procCall.result) :
        LET p == procCall.result[i]
            prev == procCall.before.prev_processes
        IN  /\ procCall.total_cpu <= procCall.before.prev_total_cpu =>
                 IsZero(p.cpu_percent)
            /\ p.pid \in DOMAIN prev =>
                 /\ p.total_cpu_time <= prev[p.pid][1] => IsZero(p.cpu_percent)
                 /\ p.disk_read_bytes <= prev[p.pid][2] => p.disk_read_rate = 0
                 /\ p.disk_write_bytes <= prev[p.pid][3] => p.disk_write_rate = 0

\* a counter that fell below its retained value produced a zero rate: a
\* process read counter, a device write counter, or the CPU's total ticks
C8_Witness ==
    \/ \E i \in 1..Len(procCall.result) :
        LET p == procCall.result[i]
        IN  /\ p.pid \in DOMAIN procCall.before.prev_processes
            /\ p.disk_read_bytes < procCall.before.prev_processes[p.pid][2]
            /\ p.total_cpu_time < procCall.before.prev_processes[p.pid][1]
            /\ procCall.total_cpu > procCall.before.prev_total_cpu
            /\ p.disk_read_rate = 0
            /\ IsZero(p.cpu_percent)
    \/ \E i \in 1..Len(diskCall.result) :
        LET d == diskCall.result[i]
        IN  /\ StatOf(diskCall.before, d.name) # << >>
            /\ d.total2 < StatOf(diskCall.before, d.name)[3]
            /\ IsZero(d.rate2)
    \/ \E i \in 1..Len(cpuCall.result) :
        LET r == cpuCall.result[i]
        IN  /\ LineTotal(CpuLineOf(r.idx)) < cpuCall.before.prev_total[r.idx]
            /\ IsZero(r.percent)

(***************************************************************************)
(* Claims about build_app_groups                                           *)
(***************************************************************************)
\* the pids of one group: the leader's, then the children's
GroupPids(g) == <<g.leader.pid>> \o [i \in 1..Len(g.children) |-> g.children[i].pid]

\* the places (group, position) of the output at which pid occurs
Places(pid) ==
    {<<i, j>> \in (1..Len(gGroups)) \X (1..(MaxProcs + 2)) :
        j <= Len(GroupPids(gGroups[i])) /\ GroupPids(gGroups[i])[j] = pid}

InputPids == {gProcs[i].pid : i \in 1..Len(gProcs)}

\* C1: every pid of the input occurs at exactly one place of the output, as
\* the leader or as a child of exactly one group.
C1_EachPidOnce ==
    gPhase = "built" => \A pid \in InputPids : Cardinality(Places(pid)) = 1

\* an output with a Kernel group, a group merged by prefix and nothing else,
\* from three processes
C1_Witness ==
    /\ gPhase = "built"
    /\ Len(gProcs) = 3
    /\ Len(gGroups) = 2
    /\ \E i \in 1..2 : gGroups[i].leader.pid = 0
    /\ \E i \in 1..2 :
          /\ Len(gGroups[i].children) = 1
          /\ GroupKey(gGroups[i].leader) # GroupKey(gGroups[i].children[1])

\* the group of the output that holds pid
GroupIndex(pid) == CHOOSE i \in 1..Len(gGroups) : \E pl \in Places(pid) : pl[1] = i

\* two processes with non-empty exe paths that are equal but for case
SamePath(p, q) ==
    /\ p.exe_path # <<>>
    /\ q.exe_path # <<>>
    /\ to_lowercase(p.exe_path) = to_lowercase(q.exe_path)

\* the pairs of distinct non-kernel processes of the input with the same path
SamePathPairs ==
    {ab \in (1..Len(gProcs)) \X (1..Len(gProcs)) :
        /\ ab[1] < ab[2]
        /\ ~is_kernel_thread(gProcs[ab[1]])
        /\ ~is_kernel_thread(gProcs[ab[2]])
        /\ SamePath(gProcs[ab[1]], gProcs[ab[2]])}

\* C14 (as stated): two non-kernel processes with the same path, case
\* ignored, are in one group, and that group counts 2 processes when no
\* other process of the input has that path.
C14_SamePathOneGroup ==
    gPhase = "built" =>
        \A ab \in SamePathPairs :
            /\ GroupIndex(gProcs[ab[1]].pid) = GroupIndex(gProcs[ab[2]].pid)
            /\ (\A c \in 1..Len(gProcs) :
                    c \notin {ab[1], ab[2]} => ~SamePath(gProcs[c], gProcs[ab[1]]))
                => process_count(gGroups[GroupIndex(gProcs[ab[1]].pid)]) = 2

\* C14 (amended): two non-kernel processes with the same path, case ignored,
\* are in one group, and that group counts 2 processes when no other
\* non-kernel process has their grouping key, which a process without exe
\* path has when its lower-cased name equals the lower-cased path.
C14_SameKeyOneGroup ==
    gPhase = "built" =>
        \A ab \in SamePathPairs :
            /\ GroupIndex(gProcs[ab[1]].pid) = GroupIndex(gProcs[ab[2]].pid)
            /\ (\A c \in 1..Len(gProcs) :
                    (c \notin {ab[1], ab[2]} /\ ~is_kernel_thread(gProcs[c]))
                        => GroupKey(gProcs[c]) # GroupKey(gProcs[ab[1]]))
                => process_count(gGroups[GroupIndex(gProcs[ab[1]].pid)]) = 2

\* two processes whose paths differ in case only and whose display names
\* differ form a group of 2
C14_Witness ==
    /\ gPhase = "built"
    /\ \E ab \in SamePathPairs :
        /\ gProcs[ab[1]].exe_path # gProcs[ab[2]].exe_path
        /\ gProcs[ab[1]].display_name # gProcs[ab[2]].display_name
        /\ process_count(gGroups[GroupIndex(gProcs[ab[1]].pid)]) = 2

\* C15: in every group of the output each of the five totals is the
\* leader's value plus the sum of the children's values of that field.
C15_TotalsAreSums ==
    gPhase = "built" =>
        \A i \in 1..Len(gGroups) :
            LET g == gGroups[i]
            IN  /\ g.total_cpu =
                    g.leader.cpu_percent + SumField(g.children, "cpu_percent", 1)
                /\ g.total_memory =
                    g.leader.memory_bytes + SumField(g.children, "memory_bytes", 1)
                /\ g.total_vram =
                    g.leader.vram_bytes + SumField(g.children, "vram_bytes", 1)
                /\ g.total_disk_read_rate =
                    g.leader.disk_read_rate + SumField(g.children, "disk_read_rate", 1)
                /\ g.total_disk_write_rate =
                    g.leader.disk_write_rate + SumField(g.children, "disk_write_rate", 1)

\* a group of a leader and two children, next to nothing else
C15_Witness ==
    /\ gPhase = "built"
    /\ \E i \in 1..Len(gGroups) :
        /\ gGroups[i].leader.pid # 0
        /\ Len(gGroups[i].children) = 2
        /\ gGroups[i].total_vram > gGroups[i].leader.vram_bytes
        /\ gGroups[i].total_cpu > gGroups[i].leader.cpu_percent

\* C16: the list returned is sorted by total_cpu, descending: every group's
\* total_cpu is at least that of the group after it.
C16_SortedDescending ==
    gPhase = "built" =>
        \A i \in 1..(Len(gGroups) - 1) :
            gGroups[i].total_cpu >= gGroups[i + 1].total_cpu

\* three groups of decreasing total_cpu, the last of them led by the process
\* listed first
C16_Witness ==
    /\ gPhase = "built"
    /\ Len(gGroups) = 3
    /\ gGroups[1].total_cpu > gGroups[2].total_cpu
    /\ gGroups[2].total_cpu > gGroups[3].total_cpu
    /\ gGroups[3].leader.pid = gProcs[1].pid

\* C17 (as stated): whatever order the two HashMaps are iterated in, a run
\* of build_app_groups on the same list returns the list this run returned.
C17_Deterministic ==
    gPhase = "built" =>
        \A keyOrder \in IterOrders(NameKeys(gProcs)) :
            \A prefixOrder \in IterOrders(PrefixKeys(Singletons(gProcs, keyOrder))) :
                build_app_groups(gProcs, keyOrder, prefixOrder) = gGroups

\* C29 (as stated): whatever the tick counters of two consecutive samples,
\* counters that fall included, collect never underflows in dtotal - didle
\* (the thread does not die of it, and no wrapped difference is used) and
\* every percent it returns, total or per core, is between 0 and 100
C29_CpuPercentInRange ==
    /\ ~cpuPanicked
    /\ rMode = "cpu" =>
          \A i \in 1..Len(cpuCall.result) :
            LET r == cpuCall.result[i]
                l == cpuCall.lines[CHOOSE k \in 1..Len(cpuCall.lines) :
                                        cpuCall.lines[k].idx = r.idx]
            IN  /\ ~CpuUnderflow(cpuCall.before, l)
                /\ r.percent[1] >= 0
                /\ r.percent[1] <= 100 * r.percent[2]

\* C23: a process is in the synthetic Kernel group exactly when pid = 2, or
\* ppid = 2, or ppid = 0 with pid other than 1; the output holds exactly one
\* Kernel group (leader pid 0, display name "Kernel") when the input has
\* such a process and none otherwise; no other group holds such a process.
C23_KernelGroup ==
    gPhase = "built" =>
        LET Kernel(p) == p.pid = 2 \/ p.ppid = 2 \/ (p.ppid = 0 /\ p.pid # 1)
            kernelPids == {gProcs[i].pid : i \in {k \in 1..Len(gProcs) : Kernel(gProcs[k])}}
            K == {i \in 1..Len(gGroups) : gGroups[i].leader.pid = 0}
            Named(g) == g.leader.display_name = <<"K", "e", "r", "n", "e", "l">>
        IN  /\ Cardinality(K) = (IF kernelPids = {} THEN 0 ELSE 1)
            /\ \A i \in K :
                /\ Named(gGroups[i])
                /\ {gGroups[i].children[j].pid : j \in 1..Len(gGroups[i].children)}
                        = kernelPids
                /\ Len(gGroups[i].children) = Cardinality(kernelPids)
            /\ \A i \in (1..Len(gGroups)) \ K :
                /\ ~Kernel(gGroups[i].leader)
                /\ \A j \in 1..Len(gGroups[i].children) : ~Kernel(gGroups[i].children[j])

\* kthreadd and a child of pid 0 are in the Kernel group while init, also a
\* child of pid 0, leads a group of its own
C23_Witness ==
    /\ gPhase = "built"
    /\ \E i \in 1..Len(gGroups) :
        /\ gGroups[i].leader.pid = 0
        /\ {gGroups[i].children[j].pid : j \in 1..Len(gGroups[i].children)} = {2, 4}
    /\ \E i \in 1..Len(gGroups) :
        /\ gGroups[i].leader.pid = 1
        /\ gGroups[i].leader.ppid = 0

\* C24: the non-kernel processes alone under their key that have the same
\* text, case ignored, before the first '_' or '-' of their name form one
\* group when two or more share it; one alone with its prefix, or without a
\* delimiter, is a group of its own; the processes of a key with two or more
\* processes form a group that takes in nobody else.
C24_PrefixMerge ==
    gPhase = "built" =>
        LET User == {gProcs[i] : i \in {k \in 1..Len(gProcs) :
                        ~(gProcs[k].pid = 2 \/ gProcs[k].ppid = 2
                            \/ (gProcs[k].ppid = 0 /\ gProcs[k].pid # 1))}}
            Key(p) == to_lowercase(IF p.exe_path # << >> THEN p.exe_path ELSE p.name)
            Alone(p) == \A q \in User : Key(q) = Key(p) => q = p
            Delims(p) == {i \in 1..Len(p.name) : p.name[i] \in {"_", "-"}}
            Before(p) ==
                to_lowercase(SubSeq(p.name, 1,
                    (CHOOSE i \in Delims(p) : \A k \in Delims(p) : i <= k) - 1))
            Mates(p) ==
                IF ~Alone(p) THEN {q \in User : Key(q) = Key(p)}
                ELSE IF Delims(p) = {} THEN {p}
                ELSE {q \in User : Alone(q) /\ Delims(q) # {} /\ Before(q) = Before(p)}
            Members(g) == {g.leader} \cup Range(g.children)
        IN  \A p \in User : Members(gGroups[GroupIndex(p.pid)]) = Mates(p)

\* "A_y" and "a-x", under different keys, are merged by their prefix while
\* "c-z", alone with its prefix, stays a group of its own
C24_Witness ==
    /\ gPhase = "built"
    /\ \E i, j \in 1..Len(gGroups) :
        /\ gGroups[i].leader.pid # 0
        /\ Len(gGroups[i].children) = 1
        /\ {gGroups[i].leader.name, gGroups[i].children[1].name}
                = {<<"A", "_", "y">>, <<"a", "-", "x">>}
        /\ gGroups[j].leader.name = <<"c", "-", "z">>
        /\ gGroups[j].children = << >>
        /\ gGroups[j].leader.pid # 0

\* C25: in every non-kernel group the leader is the member with the lowest
\* pid among the members whose display_name is non-empty and differs from
\* their name; when no member has such a display name, it is the member
\* with the lowest pid.
C25_LeaderChoice ==
    gPhase = "built" =>
        \A i \in 1..Len(gGroups) :
            LET g == gGroups[i]
                Members == {g.leader} \cup Range(g.children)
                Titled == {m \in Members :
                            m.display_name # << >> /\ m.display_name # m.name}
                Pool == IF Titled # {} THEN Titled ELSE Members
            IN  g.leader.pid # 0 =>
                    /\ g.leader \in Pool
                    /\ \A m \in Pool : g.leader.pid <= m.pid

\* a group led by a member with a display name of its own although another
\* member has a lower pid
C25_Witness ==
    /\ gPhase = "built"
    /\ \E i \in 1..Len(gGroups) :
        /\ gGroups[i].leader.pid # 0
        /\ gGroups[i].leader.display_name # gGroups[i].leader.name
        /\ \E j \in 1..Len(gGroups[i].children) :
            gGroups[i].children[j].pid < gGroups[i].leader.pid

\* C28 (as stated): the Kernel group counts each kernel process once: its
\* total_cpu and total_memory are the sums of cpu_percent and memory_bytes
\* over the kernel processes of the input and its process_count() is their
\* number, so that over all groups the totals and the process counts add up
\* to those of the input list.
C28_KernelCountedOnce ==
    gPhase = "built" =>
        LET kernel == SelectSeq(gProcs, LAMBDA p :
                        p.pid = 2 \/ p.ppid = 2 \/ (p.ppid = 0 /\ p.pid # 1))
            counts == [i \in 1..Len(gGroups) |->
                        [cpu_percent |-> gGroups[i].total_cpu,
                         memory_bytes |-> gGroups[i].total_memory,
                         threads |-> process_count(gGroups[i])]]
        IN  /\ \A i \in 1..Len(gGroups) :
                gGroups[i].leader.pid = 0 =>
                    /\ gGroups[i].total_cpu = SumField(kernel, "cpu_percent", 1)
                    /\ gGroups[i].total_memory = SumField(kernel, "memory_bytes", 1)
                    /\ process_count(gGroups[i]) = Len(kernel)
            /\ SumField(counts, "cpu_percent", 1) = SumField(gProcs, "cpu_percent", 1)
            /\ SumField(counts, "memory_bytes", 1) = SumField(gProcs, "memory_bytes", 1)
            /\ SumField(counts, "threads", 1) = Len(gProcs)

(***************************************************************************)
(* Claims about the history tracker                                        *)
(***************************************************************************)
\* the groups of the last call that carry display name n, in list order
GroupsNamed(n) == SelectSeq(hGroups, LAMBDA g : display_name(g) = n)

\* the samples the last call appended for n: one per group named n, or one
\* zero when no group carried the name
PushedCpu(n) ==
    IF n \in SeenNames(hGroups)
    THEN [i \in 1..Len(GroupsNamed(n)) |-> GroupsNamed(n)[i].total_cpu]
    ELSE <<0>>
PushedMem(n) ==
    IF n \in SeenNames(hGroups)
    THEN [i \in 1..Len(GroupsNamed(n)) |-> GroupsNamed(n)[i].total_memory]
    ELSE <<0>>

PrevCpu(n) == IF n \in DOMAIN hPrev THEN hPrev[n].cpu_samples ELSE <<>>
PrevMem(n) == IF n \in DOMAIN hPrev THEN hPrev[n].mem_samples ELSE <<>>

AllZero(s) == \A i \in 1..Len(s) : s[i] = 0

\* C2: every tracked history holds at most MAX_SAMPLES CPU samples and at
\* most MAX_SAMPLES memory samples, and a series that was full before a call
\* that appended one sample to it has lost its oldest sample and ends with
\* the new one.
C2_HistoryBounded ==
    \A n \in DOMAIN histories :
        /\ Len(histories[n].cpu_samples) <= MAX_SAMPLES
        /\ Len(histories[n].mem_samples) <= MAX_SAMPLES
        /\ (Len(PrevCpu(n)) = MAX_SAMPLES /\ Len(PushedCpu(n)) = 1) =>
              /\ histories[n].cpu_samples = Tail(PrevCpu(n)) \o PushedCpu(n)
              /\ histories[n].mem_samples = Tail(PrevMem(n)) \o PushedMem(n)

\* a full series with a positive oldest sample took one more sample
C2_Witness ==
    \E n \in DOMAIN histories :
        /\ Len(PrevCpu(n)) = MAX_SAMPLES
        /\ PrevCpu(n)[1] > 0
        /\ Len(PushedCpu(n)) = 1
        /\ PushedCpu(n)[1] = 0

\* C3: a display name absent from MAX_SAMPLES consecutive update calls is
\* no longer tracked after the last of them, whatever it held before.
C3_EvictedAfterWindow ==
    \A n \in Names : absentRun[n] >= MAX_SAMPLES => n \notin DOMAIN histories

\* a name that held a full series with a positive newest sample was evicted
\* exactly at the MAX_SAMPLES-th absent call
C3_Witness ==
    \E n \in Names :
        /\ absentRun[n] = MAX_SAMPLES
        /\ n \in DOMAIN hPrev
        /\ n \notin DOMAIN histories
        /\ Len(hPrev[n].cpu_samples) = MAX_SAMPLES
        /\ hPrev[n].cpu_samples[1] > 0 \/ hPrev[n].mem_samples[1] > 0

\* C4: update removes a history only when its name is absent from the call
\* and every sample retained after the call's zero sample is zero; a present
\* name is never removed; an absent name that still holds a positive sample
\* stays tracked with exactly one zero sample appended.
C4_EvictOnlyFaded ==
    \A n \in DOMAIN hPrev :
        LET cpu0 == LastN(Append(hPrev[n].cpu_samples, 0), MAX_SAMPLES)
            mem0 == LastN(Append(hPrev[n].mem_samples, 0), MAX_SAMPLES)
        IN  /\ n \notin DOMAIN histories =>
                 /\ n \notin SeenNames(hGroups)
                 /\ AllZero(cpu0) /\ AllZero(mem0)
            /\ n \in SeenNames(hGroups) => n \in DOMAIN histories
            /\ (n \notin SeenNames(hGroups) /\ ~(AllZero(cpu0) /\ AllZero(mem0))) =>
                 /\ n \in DOMAIN histories
                 /\ histories[n].cpu_samples = cpu0
                 /\ histories[n].mem_samples = mem0

\* in one call a name whose only positive sample is a memory sample stayed
\* tracked while absent, and another name was removed
C4_Witness ==
    /\ \E n \in DOMAIN hPrev :
        /\ n \notin SeenNames(hGroups)
        /\ n \in DOMAIN histories
        /\ AllZero(histories[n].cpu_samples)
        /\ ~AllZero(histories[n].mem_samples)
    /\ \E n \in DOMAIN hPrev : n \notin DOMAIN histories

\* C5: every update call appends exactly one (CPU, memory) sample to each
\* tracked display name: the total of a group carrying the name, or zero
\* for an absent name.
C5_OneSamplePerCall ==
    \A n \in DOMAIN histories :
        \E c \in Range(PushedCpu(n)), m \in Range(PushedMem(n)) :
            /\ histories[n].cpu_samples = LastN(Append(PrevCpu(n), c), MAX_SAMPLES)
            /\ histories[n].mem_samples = LastN(Append(PrevMem(n), m), MAX_SAMPLES)

\* C6: a name sighted again while fading keeps its buffer, the new samples
\* being appended after the retained ones; only an untracked name starts
\* from an empty buffer.
C6_ResightKeepsBuffer ==
    \A n \in SeenNames(hGroups) :
        /\ n \in DOMAIN histories
        /\ histories[n].cpu_samples =
              LastN(PrevCpu(n) \o PushedCpu(n), MAX_SAMPLES)
        /\ histories[n].mem_samples =
              LastN(PrevMem(n) \o PushedMem(n), MAX_SAMPLES)

\* a name absent from the calls before, holding a positive sample followed
\* by the zero of its absence, was sighted again
C6_Witness ==
    \E n \in SeenNames(hGroups) :
        /\ absentPrev[n] > 0
        /\ n \in DOMAIN hPrev
        /\ Len(hPrev[n].cpu_samples) >= 2
        /\ hPrev[n].cpu_samples[1] > 0
        /\ hPrev[n].cpu_samples[Len(hPrev[n].cpu_samples)] = 0
        /\ Len(PushedCpu(n)) = 1
        /\ histories[n].cpu_samples = Append(hPrev[n].cpu_samples, PushedCpu(n)[1])

(***************************************************************************)
(* Claims about the hand-off channel                                       *)
(***************************************************************************)
\* C9 (as stated): the channel never holds more than 2 snapshots, and
\* whenever it holds 2 the sampler is blocked in send.
C9_FullMeansBlocked ==
    /\ Len(chan) <= ChannelCap
    /\ Len(chan) = ChannelCap => sPc = "send"

\* C9 (amended): the channel never holds more than 2 snapshots; after the
\* send that fills it the sampler starts at most one further cycle; and once
\* it has reached send with the channel holding 2 it stays blocked there,
\* starting no cycle and changing no collector or history state, until the
\* consumer receives a snapshot or drops the receiver.
C9_Backpressure ==
    /\ [](Len(chan) <= ChannelCap)
    /\ [](Len(chan) = ChannelCap => cycle <= chan[ChannelCap].seq + 1)
    /\ [][(Len(chan) = ChannelCap /\ sPc = "send" /\ Len(chan') = ChannelCap)
            => UNCHANGED samplerVars]_vars

\* the sampler is blocked in send on a full channel
C9_Witness == Len(chan) = ChannelCap /\ sPc = "send" /\ rxAlive

C11_OnePerCycleInOrder ==
    /\ sPc = "send" => pending # << >> /\ pending.seq = cycle
    /\ sPc # "send" => pending = << >>
    /\ rxAlive =>
        received + Len(chan) + (IF sPc = "send" THEN 1 ELSE 0) = cycle
    /\ \A i \in 1..Len(chan) : chan[i].seq = received + i
    /\ (latest = << >>) <=> (received = 0)
    /\ received > 0 => latest.seq = received

\* a drain has ended with two snapshots received, the second one retained,
\* and a third is queued behind them
C11_Witness ==
    /\ cPc = "idle"
    /\ rxAlive
    /\ received = ChannelCap
    /\ latest.seq = ChannelCap
    /\ Len(chan) = 1
    /\ chan[1].seq = ChannelCap + 1

\* C26: in every snapshot handed to send, queued or received, app_histories
\* is the tracker's state right after its update with that snapshot's own
\* app_groups: every group's display name has an entry whose newest sample
\* is the totals of the last group of that name, the snapshot waiting in send carries the tracker's
\* present state, and a snapshot already sent keeps its histories while the
\* tracker moves on (no entry holds more samples than cycles had run).
C26_HistoriesOfSameCycle ==
    LET Opt(s) == IF s = << >> THEN {} ELSE {s}
        Snaps == Range(chan) \cup Opt(latest) \cup Opt(pending)
    IN  /\ \A s \in Snaps :
            /\ \A i \in 1..Len(s.app_groups) :
                LET g == s.app_groups[i]
                    n == g.leader.display_name
                IN  /\ n \in DOMAIN s.app_histories
                    /\ LET h == s.app_histories[n]
                           last == \A k \in (i + 1)..Len(s.app_groups) :
                                        s.app_groups[k].leader.display_name # n
                       IN  /\ h.cpu_samples # << >>
                           /\ last => h.cpu_samples[Len(h.cpu_samples)] = g.total_cpu
                           /\ last => h.mem_samples[Len(h.mem_samples)] = g.total_memory
            /\ \A n \in DOMAIN s.app_histories :
                Len(s.app_histories[n].cpu_samples) <= s.seq
        /\ sPc = "send" =>
            /\ pending.app_groups = hGroups
            /\ pending.app_histories = histories
            /\ histories = Update(hPrev, pending.app_groups)

\* a snapshot with a group is still queued after the tracker was updated
\* again for a later cycle
C26_Witness ==
    /\ Len(chan) >= 1
    /\ chan[1].app_groups # << >>
    /\ chan[1].seq < cycle
    /\ chan[1].app_histories # histories
    /\ Len(histories[<<"a">>].cpu_samples) > chan[1].seq

(***************************************************************************)
(* Claims about failing reads                                              *)
(***************************************************************************)
\* C12 (as stated): whatever single read fails in a cycle, the sampler
\* thread does not panic: it is never left in its panicked state.
C12_ReadFailureNeverPanics == sPc # "panicked"

(***************************************************************************)
(* Claims about ProcessCollector                                           *)
(***************************************************************************)
\* the pids of the list the last ProcessCollector call returned
ReturnedPids == {procCall.result[i].pid : i \in 1..Len(procCall.result)}

\* C13: after every collect call the pids retained in prev_processes are
\* exactly the pids of the list returned, so no more than the processes
\* read; a pid of /proc that could not be read retains nothing; and a pid
\* without retained counters is computed as a new one (previous CPU time 0,
\* previous I/O counters equal to the current ones).
C13_PrunedToLive ==
    rMode = "process" =>
        /\ DOMAIN procC.prev_processes = ReturnedPids
        /\ Cardinality(DOMAIN procC.prev_processes) <= Len(procCall.result)
        /\ \A k \in 1..Len(procCall.entries) :
            ~procCall.entries[k].ok =>
                procCall.entries[k].pid \notin DOMAIN procC.prev_processes
        /\ \A i \in 1..Len(procCall.result) :
            procCall.result[i].pid \notin DOMAIN procCall.before.prev_processes =>
                /\ procCall.result[i].prev_cpu_time = 0
                /\ procCall.result[i].prev_disk_read = procCall.result[i].disk_read_bytes
                /\ procCall.result[i].prev_disk_write = procCall.result[i].disk_write_bytes

\* pid 2 had retained counters, could not be read in the last call and has
\* none now, while pid 1 is back after a call that did not list it
C13_Witness ==
    /\ rMode = "process"
    /\ 2 \in DOMAIN procCall.before.prev_processes
    /\ \E k \in 1..Len(procCall.entries) :
        procCall.entries[k].pid = 2 /\ ~procCall.entries[k].ok
    /\ 2 \notin DOMAIN procC.prev_processes
    /\ 1 \in ReturnedPids
    /\ 1 \notin DOMAIN procCall.before.prev_processes
    /\ procCall.before.prev_total_cpu > 0

\* the ticks the system total grew by in the last ProcessCollector call
DeltaTotal ==
    IF procCall.total_cpu >= procCall.before.prev_total_cpu
    THEN procCall.total_cpu - procCall.before.prev_total_cpu
    ELSE 0

\* the ticks the process of a result record grew by since the call before
DeltaProc(r) ==
    IF r.total_cpu_time >= procCall.before.prev_processes[r.pid][1]
    THEN r.total_cpu_time - procCall.before.prev_processes[r.pid][1]
    ELSE 0

\* C18: for a process that was also in the previous cycle, cpu_percent is
\* the quotient 100 * num_cores * (process ticks delta) / (system ticks
\* delta) when the system delta is positive and 0 when it is 0; with a
\* process delta of one core's share of the system delta it is 100.
C18_CpuPercentFormula ==
    rMode = "process" =>
        \A i \in 1..Len(procCall.result) :
            LET r == procCall.result[i]
            IN  r.pid \in DOMAIN procCall.before.prev_processes =>
                    /\ DeltaTotal > 0 =>
                        r.cpu_percent[1] * DeltaTotal
                            = 100 * num_cores * DeltaProc(r) * r.cpu_percent[2]
                    /\ r.cpu_percent[2] > 0
                    /\ DeltaTotal = 0 => IsZero(r.cpu_percent)
                    /\ (DeltaTotal > 0 /\ num_cores * DeltaProc(r) = DeltaTotal) =>
                        r.cpu_percent[1] = 100 * r.cpu_percent[2]

\* on two cores, a process seen in the previous cycle took one of the two
\* ticks the system counted and reads 100
C18_Witness ==
    /\ rMode = "process"
    /\ num_cores = 2
    /\ DeltaTotal = 2
    /\ \E i \in 1..Len(procCall.result) :
        /\ procCall.result[i].pid \in DOMAIN procCall.before.prev_processes
        /\ DeltaProc(procCall.result[i]) = 1
        /\ procCall.result[i].cpu_percent[1] = 100 * procCall.result[i].cpu_percent[2]

\* C22: a whole disk or a non-loopback interface that the preceding call
\* also listed reports max(0, current - previous bytes) divided by the
\* seconds since that call, the seconds taken as at least 0.001; one the
\* preceding call did not list reports 0; and what a call retains for the
\* next lookup is exactly the entries of its own cycle.
C22_DeviceRates ==
    LET Diff(a, b) == IF a > b THEN a - b ELSE 0
        Micros(c) == IF c.elapsed < 1000 THEN 1000 ELSE c.elapsed
        \* q[1] / q[2] = bytes * 1000000 / Micros(c), without the large product
        RateIs(q, bytes, c) ==
            /\ q[2] > 0
            /\ q[1] % 1000000 = 0
            /\ (q[1] \div 1000000) * Micros(c) = bytes * q[2]
        Right(c) ==
            \A i \in 1..Len(c.result) :
                LET d == c.result[i]
                    prev == StatOf(c.before, d.name)
                IN  IF prev = << >> THEN d.rate1[1] = 0 /\ d.rate2[1] = 0
                    ELSE /\ RateIs(d.rate1, Diff(d.total1, prev[2]), c)
                         /\ RateIs(d.rate2, Diff(d.total2, prev[3]), c)
        Listed(c, l) == \E i \in 1..Len(c.result) : c.result[i].name = l.name
    IN  /\ rMode = "disk" =>
            /\ Right(diskCall)
            /\ \A k \in 1..Len(diskCall.lines) :
                LET l == diskCall.lines[k]
                IN  Listed(diskCall, l) <=>
                        (l.parts >= 14 /\ l.name \in {<<"s", "d", "a">>,
                                            <<"n", "v", "m", "e", "0", "n", "1">>})
            /\ \A i \in 1..Len(diskCall.result) :
                /\ diskC[i][1] = diskCall.result[i].name
                /\ diskC[i][2] = diskCall.result[i].total1
                /\ diskC[i][3] = diskCall.result[i].total2
            /\ Len(diskC) = Len(diskCall.result)
        /\ rMode = "net" =>
            /\ Right(netCall)
            /\ \A k \in 1..Len(netCall.lines) :
                LET l == netCall.lines[k]
                IN  Listed(netCall, l) <=> (l.parts >= 10 /\ l.name # <<"l", "o">>)
            /\ \A i \in 1..Len(netCall.result) :
                /\ netC[i][1] = netCall.result[i].name
                /\ netC[i][2] = netCall.result[i].total1
                /\ netC[i][3] = netCall.result[i].total2
            /\ Len(netC) = Len(netCall.result)

\* a disk listed by the preceding call has read 512 bytes more, half a
\* millisecond after that call: the rate is 512 bytes per 0.001 s
C22_Witness ==
    /\ rMode = "disk"
    /\ diskCall.elapsed = 500
    /\ \E i \in 1..Len(diskCall.result) :
        LET d == diskCall.result[i]
            prev == StatOf(diskCall.before, d.name)
        IN  /\ prev # << >>
            /\ d.total1 = prev[2] + 512
            /\ d.rate1[1] = 512000 * d.rate1[2]
            /\ d.total2 < prev[3]
            /\ d.rate2[1] = 0

\* C21 (as stated): for a process seen in two consecutive cycles,
\* disk_read_rate and disk_write_rate are max(0, current - previous
\* cumulative bytes) divided by the wall-clock seconds between the two
\* cycles, whatever the cycle lasted.
C21_DiskRatePerSecond ==
    sPc \in {"send", "sleep", "collect", "done"} =>
        \A i \in 1..Len(procCall.result) :
            LET r == procCall.result[i]
                prev == procCall.before.prev_processes
                Diff(a, b) == IF a > b THEN a - b ELSE 0
            IN  r.pid \in DOMAIN prev =>
                    /\ r.disk_read_rate * procCall.elapsed
                        = Diff(r.disk_read_bytes, prev[r.pid][2]) * 1000000
                    /\ r.disk_write_rate * procCall.elapsed
                        = Diff(r.disk_write_bytes, prev[r.pid][3]) * 1000000

(***************************************************************************)
(* Claims about resolve_display_name                                       *)
(***************************************************************************)
\* C19 (as stated): the result comes from the first rule that matches: (1)
\* a non-empty window title of the pid; (2) the desktop entry of the
\* executable basename, exact key before lower-cased key; (3) for an
\* interpreter basename with a path-like non-flag argument, the name derived
\* from the first such argument; (4) the command name only when none of
\* these matches.
C19_FirstMatchWins ==
    (call.fn = "resolve_display_name" /\ call.returned) =>
        LET r == call.result
            pid == call.info.pid
            base == ExeBasename(call.info.exe_path)
            wt == call.window_titles
            dn == call.desktop_names
            titled == pid \in DOMAIN wt /\ wt[pid] # << >>
            exact == base \in DOMAIN dn
            lower == to_lowercase(base) \in DOMAIN dn
            ScriptArgs ==
                {i \in 2..Len(call.argv) :
                    Head(call.argv[i]) # "-" /\ PathLike(call.argv[i])}
            script == is_interpreter(base) /\ ScriptArgs # {}
            first == call.argv[CHOOSE i \in ScriptArgs : \A k \in ScriptArgs : i <= k]
            comps == Components(first)
            stem == StemOf(comps[Len(comps)])
            derived == IF stem \in GenericStems /\ Len(comps) >= 2
                       THEN comps[Len(comps) - 1] ELSE stem
        IN  IF titled THEN r = [display_name |-> wt[pid], rule |-> 1]
            ELSE IF exact THEN r = [display_name |-> dn[base], rule |-> 2]
            ELSE IF lower
                 THEN r = [display_name |-> dn[to_lowercase(base)], rule |-> 2]
            ELSE IF script
                 THEN r = [display_name |-> derived, rule |-> 3]
            ELSE r = [display_name |-> call.info.name, rule |-> 4]

(***************************************************************************)
(* Claims about MemoryCollector::collect                                   *)
(***************************************************************************)
\* C20: collect reports bytes (kB x 1024) with used = total - available and
\* swap_used = swap_total - swap_free, both saturating at 0, whatever the
\* order of the lines; MemTotal 16777216 kB with MemAvailable 8388608 kB
\* gives used = 8,589,934,592 = 8192 * 2^20.
C20_UsedAndSwapUsed ==
    (call.fn = "MemoryCollector::collect" /\ call.returned) =>
        LET m == call.meminfo
            r == call.result
            \* the kB figure of the line with this key, 0 when there is none
            Kb(key) ==
                IF \E i \in 1..Len(m) : m[i].key = key /\ m[i].kb # << >>
                THEN m[CHOOSE i \in 1..Len(m) : m[i].key = key].kb[1]
                ELSE 0
            Diff(a, b) == IF a > b THEN a - b ELSE 0
        IN  /\ r.total = Bytes(Kb("MemTotal:"))
            /\ r.available = Bytes(Kb("MemAvailable:"))
            /\ r.swap_total = Bytes(Kb("SwapTotal:"))
            /\ r.used = Bytes(Diff(Kb("MemTotal:"), Kb("MemAvailable:")))
            /\ r.swap_used = Bytes(Diff(Kb("SwapTotal:"), Kb("SwapFree:")))
            /\ (Kb("MemTotal:") = 16777216 /\ Kb("MemAvailable:") = 8388608)
                    => r.used = <<8192, 0>>

\* the example of the claim, with the SwapFree line ahead of the SwapTotal
\* line and some swap in use
C20_Witness ==
    /\ call.fn = "MemoryCollector::collect"
    /\ call.returned
    /\ call.result.used = <<8192, 0>>
    /\ call.result.swap_used = Bytes(2)
    /\ \E i, j \in 1..Len(call.meminfo) :
            /\ i < j
            /\ call.meminfo[i].key = "SwapFree:"
            /\ call.meminfo[j].key = "SwapTotal:"

\* C30 (as stated): for any battery readings, status Charging with
\* energy_now above energy_full included, collect completes without
\* unsigned underflow; time_remaining_secs is a non-negative energy amount
\* (the deficit to full when charging, the remaining energy otherwise)
\* divided by the power draw, in seconds, and stays 0 when the draw is 0
C30_TimeRemaining ==
    call.fn = "BatteryCollector::collect" /\ call.returned =>
        LET r == call.result
            amount == IF r.status = "Charging"
                      THEN saturating_sub(r.energy_full, r.energy_now)
                      ELSE r.energy_now
        IN  /\ ~r.panicked
            /\ r.available /\ r.power_now > 0 =>
                  r.time_remaining_secs = (amount * 3600) \div r.power_now
            /\ r.power_now = 0 => r.time_remaining_secs = 0

====
